---- MODULE Spec2Model ----
(***************************************************************************)
(* A model of ghostfetch: the bounded-concurrency batch fetcher            *)
(* (parallel.go), the fetch coordinator fetchOne, and the persistent       *)
(* cookie store (cookies.go).                                              *)
(***************************************************************************)
EXTENDS Integers, Sequences, FiniteSets, TLC

\* ------------------------------------------------------------------ bounds
MaxUrls == 6
MaxFlag == 2
MaxTime == 3
MaxOps == 2
MaxBatch == 2
MaxSets == 3
MaxText == 5
\* the longest redirect chain a server answers with
MaxChain == 12
\* the longest response body before compression, in bytes
MaxPlain == 2
\* the longest script, in statements, of the several-statement scripts
MaxStmts == 2
\* the longest input list of the runs checked for termination
MaxLiveUrls == 4
\* the longest page body, in tokens, given to extractSitekey
MaxBody == 5

\* default concurrency cap of runParallelFetch
DefaultMaxParallel == 5

\* ------------------------------------------------------------------ URLs
\* A URL string is kept as its parts; scheme "" is a string without "://".
MkUrl(s, h) == [scheme |-> s, host |-> h]
NoUrl == MkUrl("", "")
RawUrls == <<MkUrl("", "a.test"), MkUrl("https", "a.test"), MkUrl("http", "b.test")>>

\* fetchOne step 1: prepend "https://" when the string holds no "://"
NormalizeURL(u) == IF u.scheme = "" THEN MkUrl("https", u.host) ELSE u

\* ------------------------------------------------------------- fetchResult
ZeroResult == [URL |-> NoUrl, StatusCode |-> 0, Error |-> "nil"]
OkResult(target, status) == [URL |-> target, StatusCode |-> status, Error |-> "nil"]

\* ------------------------------------------------------------ cookie store
\* Instants are numbers; 0 is the zero time.Time (a session cookie's expiry).
\* URLs of the model carry no path, so every request path is "/".
SubdomainPairs == { <<"sub.a.test", "a.test">> }

\* net/http/cookiejar: hasDotSuffix / domain-match of a host against a domain
DomainMatches(host, domain) == host = domain \/ <<host, domain>> \in SubdomainPairs

\* cookies.go:49: urlKey := u.Scheme + "://" + u.Host
UrlKey(u) == MkUrl(u.scheme, u.host)

\* cookiejar.Jar.newEntry as called from cookies.go:47 and cookies.go:120:
\* the path defaults to "/", an empty Domain makes a host-only cookie, a Domain
\* that does not domain-match the request host is rejected, and a non-zero
\* expiry that is not after now deletes the cookie.
NewEntry(c, host, t) ==
    [ ok     |-> c.Domain = "" \/ DomainMatches(host, c.Domain),
      remove |-> c.Expires # 0 /\ c.Expires <= t,
      e      |-> [ Name |-> c.Name, Value |-> c.Value,
                   Domain |-> IF c.Domain = "" THEN host ELSE c.Domain,
                   HostOnly |-> c.Domain = "",
                   Path |-> IF c.Path = "" THEN "/" ELSE c.Path,
                   Secure |-> c.Secure,
                   Persistent |-> c.Expires # 0,
                   Expires |-> c.Expires ] ]

SameId(e, f) == e.Domain = f.Domain /\ e.Path = f.Path /\ e.Name = f.Name

\* cookiejar.Jar.SetCookies for one cookie
JarSetOne(entries, u, c, t) ==
    LET n == NewEntry(c, u.host, t) IN
    IF u.scheme \notin {"http", "https"} \/ ~n.ok THEN entries
    ELSE IF n.remove THEN { e \in entries : ~SameId(e, n.e) }
    ELSE { e \in entries : ~SameId(e, n.e) } \cup {n.e}

RECURSIVE JarSetCookies(_, _, _, _)
JarSetCookies(entries, u, cs, t) ==
    IF cs = <<>> THEN entries
    ELSE JarSetCookies(JarSetOne(entries, u, Head(cs), t), u, Tail(cs), t)

\* cookiejar entry.shouldSend: domain, path and Secure against the request
ShouldSend(e, u) ==
    /\ \/ e.Domain = u.host
       \/ ~e.HostOnly /\ DomainMatches(u.host, e.Domain)
    /\ e.Path = "/"
    /\ u.scheme = "https" \/ ~e.Secure

JarExpired(e, t) == e.Persistent /\ e.Expires <= t

\* cookies.go:69-71: Cookies delegates to the jar, which returns name and
\* value of each unexpired entry it would send to u
JarCookies(entries, u, t) ==
    IF u.scheme \notin {"http", "https"} THEN {}
    ELSE { [Name |-> e.Name, Value |-> e.Value] :
             e \in { f \in entries : ~JarExpired(f, t) /\ ShouldSend(f, u) } }

NameValue(c) == [Name |-> c.Name, Value |-> c.Value]

SavedNoValue(c, key) ==
    [ Name |-> c.Name, Value |-> "", Domain |-> c.Domain, Path |-> c.Path,
      Expires |-> c.Expires, Secure |-> c.Secure, URL |-> key ]

\* cookies.go:57-65: the tuple recorded for a cookie
Saved(c, key) ==
    [ Name |-> c.Name, Value |-> c.Value, Domain |-> c.Domain, Path |-> c.Path,
      Expires |-> c.Expires, Secure |-> c.Secure, URL |-> key ]

\* cookies.go:120-122: the cookie rebuilt from a tuple
CookieOf(sc) ==
    [ Name |-> sc.Name, Value |-> sc.Value, Domain |-> sc.Domain, Path |-> sc.Path,
      Expires |-> sc.Expires, Secure |-> sc.Secure ]

RemoveNothing(tracked, name, key) == tracked

\* cookies.go:51-56: drop the first tuple with the same name and origin key
RECURSIVE RemoveFirst(_, _, _)
RemoveFirst(tracked, name, key) ==
    IF tracked = <<>> THEN <<>>
    ELSE IF Head(tracked).Name = name /\ Head(tracked).URL = key THEN Tail(tracked)
    ELSE <<Head(tracked)>> \o RemoveFirst(Tail(tracked), name, key)

\* cookies.go:48-66
RECURSIVE TrackAll(_, _, _)
TrackAll(tracked, u, cs) ==
    IF cs = <<>> THEN tracked
    ELSE TrackAll(Append(RemoveFirst(tracked, Head(cs).Name, UrlKey(u)),
                         Saved(Head(cs), UrlKey(u))), u, Tail(cs))

EmptyStore == [entries |-> {}, tracked |-> <<>>]

\* cookies.go:44-67
PSetCookies(st, u, cs, t) ==
    [ entries |-> JarSetCookies(st.entries, u, cs, t),
      tracked |-> TrackAll(st.tracked, u, cs) ]

\* cookies.go:80-87: the tuples Save keeps
IsStale(sc, t) == sc.Expires # 0 /\ sc.Expires < t
ActiveNoFilter(tracked, t) == tracked
Active(tracked, t) == SelectSeq(tracked, LAMBDA sc : ~IsStale(sc, t))

\* The cookie file: missing, zero bytes ("empty": opened with O_TRUNC and not
\* yet written), or a JSON document holding a list of tuples.
MissingFile == [kind |-> "missing", data |-> <<>>]
TruncatedFile == [kind |-> "empty", data |-> <<>>]
JsonFile(data) == [kind |-> "json", data |-> data]
\* a file os.ReadFile cannot read, and one whose bytes are not JSON
UnreadableFile == [kind |-> "unreadable", data |-> <<>>]
MalformedFile == [kind |-> "malformed", data |-> <<>>]

LoadablesUnfiltered(data, t) == data

\* cookies.go:112-124: the tuples Load installs, in file order
Loadables(data, t) == SelectSeq(data, LAMBDA sc : ~IsStale(sc, t))

InstallNothing(entries, scs, t) == entries

RECURSIVE InstallAll(_, _, _)
InstallAll(entries, scs, t) ==
    IF scs = <<>> THEN entries
    ELSE InstallAll(JarSetCookies(entries, Head(scs).URL, <<CookieOf(Head(scs))>>, t),
                    Tail(scs), t)

PLoadMissingFails(st, f, t) ==
    IF f.kind \in {"missing", "empty"} THEN [st |-> st, err |-> "no such file"]
    ELSE [ st  |-> [ entries |-> InstallAll(st.entries, Loadables(f.data, t), t),
                     tracked |-> st.tracked \o Loadables(f.data, t) ],
           err |-> "nil" ]

PLoadIgnoresErrors(st, f, t) ==
    IF f.kind # "json" THEN [st |-> st, err |-> "nil"]
    ELSE [ st  |-> [ entries |-> InstallAll(st.entries, Loadables(f.data, t), t),
                     tracked |-> st.tracked \o Loadables(f.data, t) ],
           err |-> "nil" ]

\* cookies.go:97-126: the store and the error Load returns
PLoad(st, f, t) ==
    IF f.kind = "missing" THEN [st |-> st, err |-> "nil"]
    ELSE IF f.kind = "unreadable" THEN [st |-> st, err |-> "permission denied"]
    ELSE IF f.kind = "empty" THEN [st |-> st, err |-> "unexpected end of JSON input"]
    ELSE IF f.kind = "malformed" THEN [st |-> st, err |-> "invalid character"]
    ELSE [ st  |-> [ entries |-> InstallAll(st.entries, Loadables(f.data, t), t),
                     tracked |-> st.tracked \o Loadables(f.data, t) ],
           err |-> "nil" ]


VARIABLES
    urls,             \* runParallelFetch: the input list
    flagMaxParallel,  \* the --max-parallel flag
    spawned,          \* number of loop iterations done (goroutines started)
    tpc,              \* per task: "idle", "acquire", "run", "written", "done"
    sem,              \* number of tokens in the sem channel
    wg,               \* the WaitGroup counter
    results,          \* the pre-allocated result slots
    mainpc,           \* runParallelFetch: "loop", "wait", "format", "returned"
    retval,           \* what runParallelFetch returned
    outcome,          \* history: what fetchOne returned in task i
    slotWrites,       \* history: the sequence of tasks that wrote slot i
    readAt,           \* history: the task pcs when the results were read
    outOfOrder,       \* history: a task wrote its slot before an earlier one
    unreachable,      \* the hosts that do not answer during this run
    stores,           \* the PersistentJar of each holder: jar entries, tracked
    file,             \* the cookie file at the store path
    now,              \* the clock
    got,              \* what the last Cookies call returned
    nOps,             \* number of SetCookies and Load calls on the first store
    rt,               \* history: progress of a set, save, fresh-load sequence
    lastOp,           \* history: the store operation that ran last
    flagNoCookies,    \* the --no-cookies flag
    flagTimeout,      \* the --timeout flag, a duration string
    fs,               \* per task: the locals of its fetchOne call
    mu,               \* per task: whether the mutex of its PersistentJar is held
    committed,        \* history: per (name, origin key), the value saved last
    call              \* one call of a function on its own: name, input, result

schedVars == <<urls, flagMaxParallel, spawned, tpc, sem, wg, results, mainpc,
               retval, outcome, slotWrites, readAt, outOfOrder, unreachable>>

jarVars == <<stores, file, now, got, nOps, rt, lastOp>>

fetchVars == <<flagNoCookies, flagTimeout, fs, mu, committed, call>>

vars == <<schedVars, jarVars, fetchVars>>

Tasks == 1..Len(urls)

\* parallel.go:15-18
MaxParOffByOne == IF flagMaxParallel <= 0 THEN DefaultMaxParallel ELSE flagMaxParallel + 1
MaxPar == IF flagMaxParallel <= 0 THEN DefaultMaxParallel ELSE flagMaxParallel

\* The input lists: every length up to MaxUrls, cycling through RawUrls, so
\* lists longer than RawUrls repeat a URL.
InputLists ==
    { [i \in 1..n |-> RawUrls[(i % Len(RawUrls)) + 1]] : n \in 0..MaxUrls }


NoCall == [fn |-> "none", in |-> <<>>, out |-> <<>>]
NoGot == [s |-> 0, u |-> NoUrl, cs |-> {}]
NoRt == [phase |-> "none", u |-> NoUrl, c |-> <<>>]

\* the store variables of a run that uses no store
InitStoreIdle ==
    /\ stores = <<>>
    /\ file = MissingFile
    /\ now = 1
    /\ got = NoGot
    /\ nOps = 0
    /\ rt = NoRt
    /\ lastOp = "none"

\* the fetchOne variables of a run that does not step through fetchOne
InitFetchIdle ==
    /\ flagNoCookies = FALSE
    /\ flagTimeout = "30s"
    /\ fs = <<>>
    /\ mu = <<>>
    /\ committed = <<>>
    /\ call = NoCall

\* fetchOne has not returned yet in a task
NoOutcome == [res |-> ZeroResult, err |-> "none"]

InitSched ==
    /\ urls \in InputLists
    /\ flagMaxParallel \in -1..MaxFlag
    /\ spawned = 0
    /\ tpc = [i \in 1..Len(urls) |-> "idle"]
    /\ sem = 0
    /\ wg = 0
    /\ results = [i \in 1..Len(urls) |-> ZeroResult]
    /\ mainpc = "loop"
    /\ retval = "none"
    /\ outcome = [i \in 1..Len(urls) |-> NoOutcome]
    /\ slotWrites = [i \in 1..Len(urls) |-> <<>>]
    /\ readAt = <<>>
    /\ outOfOrder = FALSE
    /\ unreachable \in SUBSET {"a.test", "b.test"}
    /\ InitStoreIdle
    /\ InitFetchIdle

\* parallel.go:24-26: one loop iteration: wg.Add(1); go func(i, u)
Spawn ==
    /\ mainpc = "loop"
    /\ spawned < Len(urls)
    /\ spawned' = spawned + 1
    /\ wg' = wg + 1
    /\ tpc' = [tpc EXCEPT ![spawned + 1] = "acquire"]
    /\ UNCHANGED <<urls, flagMaxParallel, sem, results, mainpc, retval, outcome,
                   slotWrites, readAt, outOfOrder, unreachable>>
    /\ UNCHANGED <<jarVars, fetchVars>>

\* parallel.go:24,47: the range loop ends
LoopEnd ==
    /\ mainpc = "loop"
    /\ spawned = Len(urls)
    /\ mainpc' = "wait"
    /\ UNCHANGED <<urls, flagMaxParallel, spawned, tpc, sem, wg, results, retval,
                   outcome, slotWrites, readAt, outOfOrder, unreachable>>
    /\ UNCHANGED <<jarVars, fetchVars>>

\* parallel.go:28: sem <- struct{}{} blocks while the channel is full
Acquire(i) ==
    /\ tpc[i] = "acquire"
    /\ sem < MaxPar
    /\ sem' = sem + 1
    /\ tpc' = [tpc EXCEPT ![i] = "run"]
    /\ UNCHANGED <<urls, flagMaxParallel, spawned, wg, results, mainpc, retval,
                   outcome, slotWrites, readAt, outOfOrder, unreachable>>
    /\ UNCHANGED <<jarVars, fetchVars>>

\* parallel.go:38-45: the slot the task writes for what fetchOne returned
SlotByCompletion(i) == Cardinality({j \in Tasks : slotWrites[j] # <<>>}) + 1
SlotIndex(i) == i

ErrSlotBlank(raw, err) == ZeroResult
ErrSlot(raw, err) == [URL |-> raw, StatusCode |-> 0, Error |-> err]

SlotValue(raw, out) ==
    IF out.err # "nil" THEN ErrSlot(raw, out.err) ELSE out.res

StoreResult(i, out) ==
    /\ results' = [results EXCEPT ![SlotIndex(i)] = SlotValue(urls[i], out)]
    /\ slotWrites' = [slotWrites EXCEPT ![SlotIndex(i)] = Append(@, i)]
    /\ outcome' = [outcome EXCEPT ![i] = out]
    /\ outOfOrder' = (outOfOrder \/ \E j \in 1..(i - 1) : slotWrites[j] = <<>>)

\* What fetchOne can return for a raw URL: a result for the normalized URL,
\* or an error.
FetchOutcomes(raw) ==
    IF raw.host \in unreachable
    THEN { [res |-> ZeroResult, err |-> "fetch failed"] }
    ELSE { [res |-> OkResult(NormalizeURL(raw), 200), err |-> "nil"] }

\* parallel.go:31-45 with fetchOne taken as one call
FetchOneCall(i) ==
    /\ tpc[i] = "run"
    /\ \E out \in FetchOutcomes(urls[i]) : StoreResult(i, out)
    /\ tpc' = [tpc EXCEPT ![i] = "written"]
    /\ UNCHANGED <<urls, flagMaxParallel, spawned, sem, wg, mainpc, retval, readAt, unreachable>>
    /\ UNCHANGED <<jarVars, fetchVars>>

\* parallel.go:27,29: the deferred calls: <-sem, then wg.Done()
ReleaseSemOnSuccessOnly(i) == IF outcome[i].err = "nil" THEN sem - 1 ELSE sem
ReleaseSem(i) == sem - 1

Finish(i) ==
    /\ tpc[i] = "written"
    /\ sem' = ReleaseSem(i)
    /\ wg' = wg - 1
    /\ tpc' = [tpc EXCEPT ![i] = "done"]
    /\ UNCHANGED <<urls, flagMaxParallel, spawned, results, mainpc, retval,
                   outcome, slotWrites, readAt, outOfOrder, unreachable>>
    /\ UNCHANGED <<jarVars, fetchVars>>

\* parallel.go:49: wg.Wait() returns when the counter is zero
WaitReady == wg = 0

Wait ==
    /\ mainpc = "wait"
    /\ WaitReady
    /\ mainpc' = "format"
    /\ UNCHANGED <<urls, flagMaxParallel, spawned, tpc, sem, wg, results, retval,
                   outcome, slotWrites, readAt, outOfOrder, unreachable>>
    /\ UNCHANGED <<jarVars, fetchVars>>

\* parallel.go:51-63: the results are read and formatted, nil is returned
FormatAndReturn ==
    /\ mainpc = "format"
    /\ readAt' = Append(readAt, tpc)
    /\ mainpc' = "returned"
    /\ retval' = "nil"
    /\ UNCHANGED <<urls, flagMaxParallel, spawned, tpc, sem, wg, results, outcome,
                   slotWrites, outOfOrder, unreachable>>
    /\ UNCHANGED <<jarVars, fetchVars>>


NextSched ==
    \/ Spawn
    \/ LoopEnd
    \/ \E i \in Tasks : Acquire(i)
    \/ \E i \in Tasks : FetchOneCall(i)
    \/ \E i \in Tasks : Finish(i)
    \/ Wait
    \/ FormatAndReturn

SpecSched == InitSched /\ [][NextSched]_vars

\* The Go scheduler runs every runnable goroutine, and every fetchOne call is
\* taken to return: each step that stays possible is eventually taken.
\* Every step moves the loop, the main routine or a task, so fairness is
\* stated over those positions.
schedPcs == <<spawned, mainpc, tpc>>

InitSchedLive ==
    /\ InitSched
    /\ Len(urls) <= MaxLiveUrls

SpecSchedLive ==
    /\ InitSchedLive
    /\ [][NextSched]_vars
    /\ WF_schedPcs(Spawn)
    /\ WF_schedPcs(LoopEnd)
    /\ \A i \in 1..MaxLiveUrls : WF_schedPcs(i \in Tasks /\ Acquire(i))
    /\ \A i \in 1..MaxLiveUrls : WF_schedPcs(i \in Tasks /\ FetchOneCall(i))
    /\ \A i \in 1..MaxLiveUrls : WF_schedPcs(i \in Tasks /\ Finish(i))
    /\ WF_schedPcs(Wait)
    /\ WF_schedPcs(FormatAndReturn)


\* ------------------------------------------------- the store used directly
\* A caller drives one store (1) through SetCookies, Save, Load and Cookies
\* while the clock advances, and opens fresh stores (2) on the same path; it
\* holds one fresh store at a time and drops it before it goes back to
\* SetCookies, Save or Load on the first store.
JarUrls == { MkUrl("https", "a.test"), MkUrl("http", "sub.a.test") }
Far == MaxTime + 1
BaseCookie ==
    [ Name |-> "k", Value |-> "v", Domain |-> "", Path |-> "", Expires |-> 0,
      Secure |-> FALSE ]
JarCookieSet ==
    { BaseCookie,
      [BaseCookie EXCEPT !.Value = "w"],
      [BaseCookie EXCEPT !.Domain = "sub.a.test"],
      [BaseCookie EXCEPT !.Path = "/p"],
      [BaseCookie EXCEPT !.Secure = TRUE],
      [BaseCookie EXCEPT !.Expires = 2],
      [BaseCookie EXCEPT !.Expires = Far, !.Domain = "a.test"] }

InitJar ==
    /\ urls = <<>>
    /\ flagMaxParallel = 0
    /\ spawned = 0
    /\ tpc = <<>>
    /\ sem = 0
    /\ wg = 0
    /\ results = <<>>
    /\ mainpc = "none"
    /\ retval = "none"
    /\ outcome = <<>>
    /\ slotWrites = <<>>
    /\ readAt = <<>>
    /\ outOfOrder = FALSE
    /\ unreachable = {}
    /\ stores = <<EmptyStore, EmptyStore>>
    /\ file = MissingFile
    /\ now = 1
    /\ got = NoGot
    /\ nOps = 0
    /\ rt = NoRt
    /\ lastOp = "none"
    /\ InitFetchIdle

\* time passes between calls
Tick ==
    /\ now < MaxTime
    /\ now' = now + 1
    /\ lastOp' = "tick"
    /\ UNCHANGED <<stores, file, got, nOps, rt>>
    /\ UNCHANGED <<schedVars, fetchVars>>

\* cookies.go:44-67: SetCookies(u, [c]) on the first store
JarSet(u, c) ==
    /\ nOps < MaxOps
    /\ nOps' = nOps + 1
    /\ stores' = <<PSetCookies(stores[1], u, <<c>>, now), EmptyStore>>
    /\ rt' = [phase |-> "set", u |-> u, c |-> c]
    /\ lastOp' = "set"
    /\ UNCHANGED <<file, now, got>>
    /\ UNCHANGED <<schedVars, fetchVars>>

\* cookies.go:74-93: Save on the first store, with nothing running beside it
JarSave ==
    /\ file' = JsonFile(Active(stores[1].tracked, now))
    /\ rt' = IF rt.phase = "set" THEN [rt EXCEPT !.phase = "saved"] ELSE NoRt
    /\ lastOp' = "save"
    /\ stores' = <<stores[1], EmptyStore>>
    /\ UNCHANGED <<now, got, nOps>>
    /\ UNCHANGED <<schedVars, fetchVars>>

\* cookies.go:97-126: Load on the first store, which may already hold cookies
JarLoad ==
    /\ nOps < MaxOps
    /\ nOps' = nOps + 1
    /\ stores' = <<PLoad(stores[1], file, now).st, EmptyStore>>
    /\ rt' = NoRt
    /\ lastOp' = "load"
    /\ UNCHANGED <<file, now, got>>
    /\ UNCHANGED <<schedVars, fetchVars>>

\* cookies.go:37-42 then 97-126: newPersistentJar(path) and Load on it
JarFreshLoad ==
    /\ stores' = [stores EXCEPT ![2] = PLoad(EmptyStore, file, now).st]
    /\ rt' = IF rt.phase = "saved" THEN [rt EXCEPT !.phase = "loaded"] ELSE NoRt
    /\ lastOp' = "freshload"
    /\ UNCHANGED <<file, now, got, nOps>>
    /\ UNCHANGED <<schedVars, fetchVars>>

\* cookies.go:69-71: Cookies(u); the jar drops its expired entries on the way
JarGet(s, u) ==
    /\ got' = [s |-> s, u |-> u, cs |-> JarCookies(stores[s].entries, u, now)]
    /\ stores' = [stores EXCEPT ![s].entries = { e \in @ : ~JarExpired(e, now) }]
    /\ lastOp' = "get"
    /\ UNCHANGED <<file, now, nOps, rt>>
    /\ UNCHANGED <<schedVars, fetchVars>>

NextJar ==
    \/ Tick
    \/ \E u \in JarUrls, c \in JarCookieSet : JarSet(u, c)
    \/ JarSave
    \/ JarLoad
    \/ JarFreshLoad
    \/ \E s \in {1, 2}, u \in JarUrls : JarGet(s, u)

SpecJar == InitJar /\ [][NextJar]_vars

\* ----------------------------------------------- a store that is only set
\* The cookie lists a caller passes to SetCookies: one or two session cookies,
\* two names and two values, so a list can name a pair twice.
TrackCookies ==
    { [BaseCookie EXCEPT !.Name = n, !.Value = v] : n \in {"k", "m"}, v \in {"v", "w"} }
TrackInputs ==
    { <<c>> : c \in TrackCookies } \cup { <<c, d>> : c, d \in TrackCookies }

\* cookies.go:44-67: SetCookies(u, cs) on a store that is touched by nothing
\* else; rt keeps the call's arguments and the record before the call
TrackSet(u, cs) ==
    /\ nOps < MaxSets
    /\ nOps' = nOps + 1
    /\ stores' = [stores EXCEPT ![1] = PSetCookies(@, u, cs, now)]
    /\ rt' = [phase |-> "tracked", u |-> u, c |-> cs, before |-> stores[1].tracked]
    /\ lastOp' = "set"
    /\ UNCHANGED <<file, now, got>>
    /\ UNCHANGED <<schedVars, fetchVars>>

NextTrack == \E u \in JarUrls, cs \in TrackInputs : TrackSet(u, cs)

SpecTrack == InitJar /\ [][NextTrack]_vars


\* ------------------------------------------------------------- fetchOne
\* A response as the detector sees it: the status, whether the Server header
\* names cloudflare, which marker families the body holds ("captcha", "cf",
\* "generic"), whether the body is under 10000 bytes, and whether the
\* response sets a cookie.
Reply(status, cf, markers, small, setsCookie) ==
    [ status |-> status, cloudflare |-> cf, markers |-> markers, small |-> small,
      setsCookie |-> setsCookie ]
NoReply == Reply(0, FALSE, {}, TRUE, FALSE)

detectChallengeJSFirst(r) ==
    IF r.cloudflare /\ r.status \in {503, 403} /\ "cf" \in r.markers THEN "js"
    ELSE IF r.status = 503 /\ "generic" \in r.markers /\ r.small THEN "js"
    ELSE IF "captcha" \in r.markers THEN "captcha"
    ELSE "none"

detectChallengeAnyLength(r) ==
    IF "captcha" \in r.markers THEN "captcha"
    ELSE IF r.cloudflare /\ r.status \in {503, 403} /\ "cf" \in r.markers THEN "js"
    ELSE IF r.status = 503 /\ "generic" \in r.markers THEN "js"
    ELSE "none"

\* challenge.go:30-68
detectChallenge(r) ==
    IF "captcha" \in r.markers THEN "captcha"
    ELSE IF r.cloudflare /\ r.status \in {503, 403} /\ "cf" \in r.markers THEN "js"
    ELSE IF r.status = 503 /\ "generic" \in r.markers /\ r.small THEN "js"
    ELSE "none"

\* What the origin may answer in a batch run
BatchReplies ==
    { Reply(200, FALSE, {}, TRUE, FALSE),
      Reply(200, FALSE, {}, TRUE, TRUE),
      Reply(503, TRUE, {"cf"}, TRUE, FALSE),
      Reply(403, TRUE, {"captcha", "cf"}, TRUE, FALSE) }

SessionCookie(name, value) ==
    [ Name |-> name, Value |-> value, Domain |-> "", Path |-> "", Expires |-> 0,
      Secure |-> FALSE ]

\* the cookie a response to task i sets, the cookie the JS solver captures for
\* task i and the token cookie of the captcha branch (part_003:124-127, 174-177)
RespCookies(i, r) ==
    IF r.setsCookie THEN <<SessionCookie("sid", ToString(i))>> ELSE <<>>
SolvedCookie(i) == SessionCookie("js_clearance", ToString(i))
TokenCookie(i) == SessionCookie("cf_clearance", ToString(i))

\* part_003:43-46
TargetURL(i) == NormalizeURL(urls[i])

LoadFailed == "failed to load cookie jar"

\* what the captcha branch did: whether a sitekey was found, the two
\* environment values it read, whether an adapter was built, whether the
\* captcha service was asked
NoCaptchaWork ==
    [ sitekey |-> FALSE, svc |-> "", key |-> "", adapter |-> FALSE, asked |-> FALSE ]

InitFs ==
    [ pc |-> "start", cookies |-> {}, resp |-> NoReply, challenge |-> "none",
      err |-> "nil", log |-> <<>>, data |-> <<>>, loadSaw |-> "none",
      first |-> NoReply, save |-> "none", cap |-> NoCaptchaWork, dur |-> 0,
      reqs |-> <<>>, trace |-> <<>> ]

\* A cookie file left by an earlier run
OldFiles ==
    { MissingFile,
      JsonFile(<<Saved(SessionCookie("sid", "old"), MkUrl("https", "a.test"))>>) }

BatchLists ==
    { [i \in 1..n |-> RawUrls[(i % Len(RawUrls)) + 1]] : n \in 1..MaxBatch }

InitBatch ==
    /\ urls \in BatchLists
    /\ flagMaxParallel \in {0, 1}
    /\ spawned = 0
    /\ tpc = [i \in 1..Len(urls) |-> "idle"]
    /\ sem = 0
    /\ wg = 0
    /\ results = [i \in 1..Len(urls) |-> ZeroResult]
    /\ mainpc = "loop"
    /\ retval = "none"
    /\ outcome = [i \in 1..Len(urls) |-> "none"]
    /\ slotWrites = [i \in 1..Len(urls) |-> <<>>]
    /\ readAt = <<>>
    /\ outOfOrder = FALSE
    /\ unreachable = {}
    /\ stores = [i \in 1..Len(urls) |-> EmptyStore]
    /\ file \in OldFiles
    /\ now = 1
    /\ got = NoGot
    /\ nOps = 0
    /\ rt = NoRt
    /\ lastOp = "none"
    /\ flagNoCookies \in BOOLEAN
    /\ flagTimeout \in {"30s", "soon"}
    /\ fs = [i \in 1..Len(urls) |-> InitFs]
    /\ mu = [i \in 1..Len(urls) |-> FALSE]
    /\ committed = <<>>
    /\ call = NoCall

\* the --timeout strings tried: unset, two durations, a word, a bare number
TimeoutFlags == {"", "30s", "5s", "soon", "30"}

\* One fetchOne call on its own: a one-URL list, and a cookie file in any
\* condition another writer may have left it in.
InitFetch ==
    /\ urls \in { <<RawUrls[k]>> : k \in DOMAIN RawUrls }
    /\ flagMaxParallel \in {0, 1}
    /\ spawned = 0
    /\ tpc = [i \in 1..Len(urls) |-> "idle"]
    /\ sem = 0
    /\ wg = 0
    /\ results = [i \in 1..Len(urls) |-> ZeroResult]
    /\ mainpc = "loop"
    /\ retval = "none"
    /\ outcome = [i \in 1..Len(urls) |-> "none"]
    /\ slotWrites = [i \in 1..Len(urls) |-> <<>>]
    /\ readAt = <<>>
    /\ outOfOrder = FALSE
    /\ unreachable = {}
    /\ stores = [i \in 1..Len(urls) |-> EmptyStore]
    /\ file \in OldFiles \cup {TruncatedFile, UnreadableFile, MalformedFile}
    /\ now = 1
    /\ got = NoGot
    /\ nOps = 0
    /\ rt = NoRt
    /\ lastOp = "none"
    /\ flagNoCookies \in BOOLEAN
    /\ flagTimeout \in TimeoutFlags
    /\ fs = [i \in 1..Len(urls) |-> InitFs]
    /\ mu = [i \in 1..Len(urls) |-> FALSE]
    /\ committed = <<>>
    /\ call = NoCall

Running(i, pc) == tpc[i] = "run" /\ fs[i].pc = pc

FetchFrame == UNCHANGED <<schedVars, now, got, nOps, rt, lastOp, flagNoCookies,
                          flagTimeout, call>>

\* part_003:48-56: time.ParseDuration of the timeout string
\* time.ParseDuration on the strings tried: the seconds, or an error
ParseDuration(t) ==
    IF t = "30s" THEN [dur |-> 30, err |-> "nil"]
    ELSE IF t = "5s" THEN [dur |-> 5, err |-> "nil"]
    ELSE [dur |-> 0, err |-> "invalid duration"]

ParsesAsDuration(t) == ParseDuration(t).err = "nil"

TimeoutAsGiven(t) == t

\* part_003:49-52: an empty timeout stands for "30s"
TimeoutOrDefault(t) == IF t = "" THEN "30s" ELSE t

\* part_003:41-86: normalize the URL, parse the timeout, build the transport
FetchStart(i) ==
    /\ Running(i, "start")
    /\ fs' = [fs EXCEPT ![i] =
                LET timeout == TimeoutOrDefault(flagTimeout)
                    dur == ParseDuration(timeout).dur IN
                IF ~ParsesAsDuration(timeout)
                    THEN [@ EXCEPT !.err = "invalid timeout", !.pc = "return"]
                ELSE IF flagNoCookies THEN [@ EXCEPT !.pc = "fetch1", !.dur = dur]
                ELSE [@ EXCEPT !.pc = "load", !.dur = dur]]
    /\ UNCHANGED <<stores, file, mu, committed>>
    /\ FetchFrame

\* part_003:81-83 and cookies.go:98: newPersistentJar, Load takes the lock
LoadLock(i) ==
    /\ Running(i, "load")
    /\ stores' = [stores EXCEPT ![i] = EmptyStore]
    /\ mu' = [mu EXCEPT ![i] = TRUE]
    /\ fs' = [fs EXCEPT ![i].pc = "loading"]
    /\ UNCHANGED <<file, committed>>
    /\ FetchFrame

\* cookies.go:99-126 and part_003:83-85: read, decode, install, unlock
LoadBody(i) ==
    /\ Running(i, "loading")
    /\ LET res == PLoad(stores[i], file, now) IN
         /\ stores' = [stores EXCEPT ![i] = res.st]
         /\ fs' = [fs EXCEPT ![i] =
                     IF res.err # "nil"
                         THEN [@ EXCEPT !.err = LoadFailed, !.pc = "return",
                                        !.loadSaw = file.kind,
                                        !.trace = Append(@, "load")]
                     ELSE [@ EXCEPT !.pc = "cookies", !.loadSaw = file.kind,
                                    !.trace = Append(@, "load")]]
    /\ mu' = [mu EXCEPT ![i] = FALSE]
    /\ UNCHANGED <<file, committed>>
    /\ FetchFrame

\* part_003:92 and cookies.go:69: Cookies is entered; it takes no lock
CookiesEnter(i) ==
    /\ Running(i, "cookies")
    /\ fs' = [fs EXCEPT ![i].pc = "incookies"]
    /\ UNCHANGED <<stores, file, mu, committed>>
    /\ FetchFrame

\* cookies.go:70 and part_003:89-94: the jar's cookies for the target URL
CookiesBody(i) ==
    /\ Running(i, "incookies")
    /\ fs' = [fs EXCEPT ![i].cookies = JarCookies(stores[i].entries, TargetURL(i), now),
                        ![i].pc = "fetch1"]
    /\ stores' = [stores EXCEPT ![i].entries = { e \in @ : ~JarExpired(e, now) }]
    /\ UNCHANGED <<file, mu, committed>>
    /\ FetchFrame

\* part_003:101-104: the first request; a transport error ends the fetch
\* part_005:94-116: the request doFetchWithBody builds from its arguments
doFetchWithBody(method, extraHeaders, cookies, body) ==
    [ method |-> method, hasBody |-> body # "", extra |-> extraHeaders,
      cookies |-> cookies ]

doFetchSendsBody(method, extraHeaders, cookies) ==
    doFetchWithBody(method, extraHeaders, cookies, "payload")

\* part_005:88-90: doFetch passes an empty body
doFetch(method, extraHeaders, cookies) ==
    doFetchWithBody(method, extraHeaders, cookies, "")

\* part_003:101,141,186: the arguments of each doFetch call in fetchOne
OriginRequest(i) == doFetch("GET", <<>>, fs[i].cookies)

Fetch1(i) ==
    /\ Running(i, "fetch1")
    /\ \/ \E r \in BatchReplies :
            fs' = [fs EXCEPT ![i].resp = r, ![i].first = r, ![i].pc = "detect",
                             ![i].reqs = Append(@, OriginRequest(i)),
                             ![i].trace = Append(@, "request"),
                             ![i].log = Append(@, <<"fetch", fs[i].cookies>>)]
       \/ fs' = [fs EXCEPT ![i].err = "fetch failed", ![i].pc = "return",
                           ![i].reqs = Append(@, OriginRequest(i)),
                             ![i].trace = Append(@, "request"),
                           ![i].log = Append(@, <<"fetch-failed", fs[i].cookies>>)]
    /\ UNCHANGED <<stores, file, mu, committed>>
    /\ FetchFrame

\* part_003:107-113,149: classify the first response and branch
Detect(i) ==
    /\ Running(i, "detect")
    /\ LET ch == detectChallenge(fs[i].resp) IN
         fs' = [fs EXCEPT ![i].challenge = ch,
                          ![i].log = Append(@, <<"detect", ch>>),
                          ![i].pc = IF ch = "js" THEN "js"
                                    ELSE IF ch = "captcha" THEN "captcha"
                                    ELSE "persist"]
    /\ UNCHANGED <<stores, file, mu, committed>>
    /\ FetchFrame

JarPutWithoutJar(i, cs) == [stores EXCEPT ![i] = PSetCookies(@, TargetURL(i), cs, now)]

\* jar.SetCookies as fetchOne calls it: only with a jar (part_003:131-135)
JarPut(i, cs) ==
    IF flagNoCookies THEN stores
    ELSE [stores EXCEPT ![i] = PSetCookies(@, TargetURL(i), cs, now)]

\* part_003:113-146: no inline script, a solver error (script error or
\* timeout) or an empty cookie name go on to persist; a captured cookie is
\* added, recorded, and retried
SolveJS(i) ==
    /\ Running(i, "js")
    /\ \/ /\ \E why \in {"no-script", "script-error", "timeout", "no-cookie"} :
               fs' = [fs EXCEPT ![i].pc = "persist",
                                ![i].log = Append(@, <<"unsolved", why>>)]
          /\ UNCHANGED stores
       \/ /\ fs' = [fs EXCEPT ![i].cookies = @ \cup {NameValue(SolvedCookie(i))},
                              ![i].log = Append(@, <<"solved", "js">>),
                              ![i].pc = "fetch2"]
          /\ stores' = JarPut(i, <<SolvedCookie(i)>>)
    /\ UNCHANGED <<file, mu, committed>>
    /\ FetchFrame

\* part_003:152-153: what GHOSTFETCH_CAPTCHA_SERVICE may hold
CaptchaServiceValues == {"", "2captcha", "unknown"}

newCaptchaSolverAny(service) == TRUE

newCaptchaSolverNonEmpty(service) == service # ""

\* newCaptchaSolver: whether an adapter exists for the service name
newCaptchaSolver(service) == service \in {"2captcha", "anticaptcha"}

\* part_003:149-192: no sitekey or no credentials go on to persist; an
\* adapter that cannot be built or cannot solve ends the fetch; a token is
\* added as cf_clearance, recorded, and retried
SolveCaptcha(i) ==
    /\ Running(i, "captcha")
    /\ \E sitekey \in BOOLEAN, svc \in CaptchaServiceValues, key \in {"", "key"},
          solved \in BOOLEAN :
         LET work == [NoCaptchaWork EXCEPT !.sitekey = sitekey] IN
         IF ~sitekey
           THEN /\ svc = "" /\ key = "" /\ ~solved
                /\ fs' = [fs EXCEPT ![i].pc = "persist", ![i].cap = work,
                                    ![i].log = Append(@, <<"unsolved", "no-sitekey">>)]
                /\ UNCHANGED stores
         ELSE IF svc = "" \/ key = ""
           THEN /\ ~solved
                /\ fs' = [fs EXCEPT ![i].pc = "persist",
                                    ![i].cap = [work EXCEPT !.svc = svc, !.key = key],
                                    ![i].log = Append(@, <<"unsolved", "no-credentials">>)]
                /\ UNCHANGED stores
         ELSE IF ~newCaptchaSolver(svc)
           THEN /\ ~solved
                /\ fs' = [fs EXCEPT ![i].pc = "return",
                                    ![i].err = "captcha solver init failed",
                                    ![i].cap = [work EXCEPT !.svc = svc, !.key = key],
                                    ![i].log = Append(@, <<"unsolved",
                                                           "captcha solver init failed">>)]
                /\ UNCHANGED stores
         ELSE IF ~solved
           THEN /\ fs' = [fs EXCEPT ![i].pc = "return",
                                    ![i].err = "captcha solve failed",
                                    ![i].cap = [work EXCEPT !.svc = svc, !.key = key,
                                                            !.adapter = TRUE, !.asked = TRUE],
                                    ![i].log = Append(@, <<"unsolved",
                                                           "captcha solve failed">>)]
                /\ UNCHANGED stores
         ELSE /\ fs' = [fs EXCEPT ![i].cookies = @ \cup {NameValue(TokenCookie(i))},
                                  ![i].cap = [work EXCEPT !.svc = svc, !.key = key,
                                                          !.adapter = TRUE, !.asked = TRUE],
                                  ![i].log = Append(@, <<"solved", "captcha">>),
                                  ![i].pc = "fetch2"]
              /\ stores' = JarPut(i, <<TokenCookie(i)>>)
    /\ UNCHANGED <<file, mu, committed>>
    /\ FetchFrame

\* part_003:140-143,186-189: where the pipeline goes after the retry
AfterRetryDetectAgain == "detect"
AfterRetry == "persist"

\* the retry; its response replaces the first one
Fetch2(i) ==
    /\ Running(i, "fetch2")
    /\ \/ \E r \in BatchReplies :
            fs' = [fs EXCEPT ![i].resp = r, ![i].pc = AfterRetry,
                             ![i].reqs = Append(@, OriginRequest(i)),
                             ![i].trace = Append(@, "request"),
                             ![i].log = Append(@, <<"fetch", fs[i].cookies>>)]
       \/ fs' = [fs EXCEPT ![i].err = "retry fetch failed", ![i].pc = "return",
                           ![i].reqs = Append(@, OriginRequest(i)),
                             ![i].trace = Append(@, "request"),
                           ![i].log = Append(@, <<"fetch-failed", fs[i].cookies>>)]
    /\ UNCHANGED <<stores, file, mu, committed>>
    /\ FetchFrame

\* part_003:195-201: with a jar, the final response's cookies go into it
IngestNothing(i) == stores

\* part_003:197-201: the final response's cookies, when it has any, are set
\* in the jar under the URL of the request that got it
IngestFinal(i) ==
    IF RespCookies(i, fs[i].resp) = <<>> THEN stores
    ELSE JarPut(i, RespCookies(i, fs[i].resp))

Persist(i) ==
    /\ Running(i, "persist")
    /\ IF flagNoCookies
         THEN /\ fs' = [fs EXCEPT ![i].pc = "return"]
              /\ UNCHANGED stores
         ELSE /\ fs' = [fs EXCEPT ![i].pc = "save",
                                  ![i].trace = IF RespCookies(i, fs[i].resp) = <<>> THEN @
                                               ELSE Append(@, "ingest")]
              /\ stores' = IngestFinal(i)
    /\ UNCHANGED <<file, mu, committed>>
    /\ FetchFrame

\* cookies.go:75-92 up to os.WriteFile opening the file with O_TRUNC: the lock
\* is taken, the active tuples are encoded, the file is emptied. A Save that
\* fails before it opens the file is only logged (part_003:202-206).
AfterSaveErrorFatal == "failed to save cookies"

\* part_003:202-206: the error fetchOne carries on with after a failed Save
AfterSaveError == "nil"

SaveBegin(i) ==
    /\ Running(i, "save")
    /\ \/ /\ file' = TruncatedFile
          /\ mu' = [mu EXCEPT ![i] = TRUE]
          /\ fs' = [fs EXCEPT ![i].pc = "saving", ![i].save = "begun",
                              ![i].trace = Append(@, "save"),
                              ![i].data = Active(stores[i].tracked, now)]
       \/ /\ fs' = [fs EXCEPT ![i].pc = "return", ![i].save = "failed",
                              ![i].trace = Append(@, "save"),
                              ![i].err = AfterSaveError]
          /\ UNCHANGED <<file, mu>>
    /\ UNCHANGED <<stores, committed>>
    /\ FetchFrame

\* history: the pairs this Save commits, with their values
Commit(data) ==
    LET keys == { <<data[k].Name, data[k].URL>> : k \in DOMAIN data }
        last(p) == CHOOSE k \in DOMAIN data :
                      /\ <<data[k].Name, data[k].URL>> = p
                      /\ \A m \in DOMAIN data :
                            <<data[m].Name, data[m].URL>> = p => m <= k
    IN [p \in keys \cup DOMAIN committed |->
            IF p \in keys THEN data[last(p)].Value ELSE committed[p]]

\* cookies.go:92 and the deferred unlock: the bytes are written
SaveEnd(i) ==
    /\ Running(i, "saving")
    /\ file' = JsonFile(fs[i].data)
    /\ mu' = [mu EXCEPT ![i] = FALSE]
    /\ committed' = Commit(fs[i].data)
    /\ fs' = [fs EXCEPT ![i].pc = "return", ![i].data = <<>>, ![i].save = "ok"]
    /\ UNCHANGED stores
    /\ FetchFrame

\* part_003:209-215 and parallel.go:38-45: fetchOne returns, its locals and
\* its jar are gone, and the task writes its slot
FetchOneReturns(i) ==
    IF fs[i].err # "nil"
        THEN [res |-> ZeroResult, err |-> fs[i].err]
    ELSE [res |-> OkResult(TargetURL(i), fs[i].resp.status), err |-> "nil"]

FetchReturn(i) ==
    /\ Running(i, "return")
    /\ StoreResult(i, FetchOneReturns(i))
    /\ tpc' = [tpc EXCEPT ![i] = "written"]
    /\ fs' = [fs EXCEPT ![i] = [InitFs EXCEPT !.pc = "done"]]
    /\ stores' = [stores EXCEPT ![i] = EmptyStore]
    /\ UNCHANGED <<urls, flagMaxParallel, spawned, sem, wg, mainpc, retval, readAt, unreachable>>
    /\ UNCHANGED <<file, now, got, nOps, rt, lastOp>>
    /\ UNCHANGED <<flagNoCookies, flagTimeout, mu, committed, call>>

NextBatch ==
    \/ Spawn
    \/ LoopEnd
    \/ \E i \in Tasks : Acquire(i)
    \/ \E i \in Tasks : FetchStart(i)
    \/ \E i \in Tasks : LoadLock(i)
    \/ \E i \in Tasks : LoadBody(i)
    \/ \E i \in Tasks : CookiesEnter(i)
    \/ \E i \in Tasks : CookiesBody(i)
    \/ \E i \in Tasks : Fetch1(i)
    \/ \E i \in Tasks : Detect(i)
    \/ \E i \in Tasks : SolveJS(i)
    \/ \E i \in Tasks : SolveCaptcha(i)
    \/ \E i \in Tasks : Fetch2(i)
    \/ \E i \in Tasks : Persist(i)
    \/ \E i \in Tasks : SaveBegin(i)
    \/ \E i \in Tasks : SaveEnd(i)
    \/ \E i \in Tasks : FetchReturn(i)
    \/ \E i \in Tasks : Finish(i)
    \/ Wait
    \/ FormatAndReturn

SpecBatch == InitBatch /\ [][NextBatch]_vars

SpecFetch == InitFetch /\ [][NextBatch]_vars

\* One URL fetched twice, one fetch after the other (a cap of one), with
\* cookies enabled: the second fetchOne builds its own jar from the file the
\* first one left.
InitRefetch ==
    /\ urls \in { <<RawUrls[k], RawUrls[k]>> : k \in DOMAIN RawUrls }
    /\ flagMaxParallel = 1
    /\ spawned = 0
    /\ tpc = [i \in 1..Len(urls) |-> "idle"]
    /\ sem = 0
    /\ wg = 0
    /\ results = [i \in 1..Len(urls) |-> ZeroResult]
    /\ mainpc = "loop"
    /\ retval = "none"
    /\ outcome = [i \in 1..Len(urls) |-> "none"]
    /\ slotWrites = [i \in 1..Len(urls) |-> <<>>]
    /\ readAt = <<>>
    /\ outOfOrder = FALSE
    /\ unreachable = {}
    /\ stores = [i \in 1..Len(urls) |-> EmptyStore]
    /\ file \in OldFiles
    /\ now = 1
    /\ got = NoGot
    /\ nOps = 0
    /\ rt = NoRt
    /\ lastOp = "none"
    /\ flagNoCookies = FALSE
    /\ flagTimeout = "30s"
    /\ fs = [i \in 1..Len(urls) |-> InitFs]
    /\ mu = [i \in 1..Len(urls) |-> FALSE]
    /\ committed = <<>>
    /\ call = NoCall

SpecRefetch == InitRefetch /\ [][NextBatch]_vars

\* ------------------------------------------------- the detector by itself
\* Header names and values are sequences of one-letter strings, so that
\* changing the case of a letter changes the sequence.
LowerLetters ==
    << "a", "b", "c", "d", "e", "f", "g", "h", "i", "j", "k", "l", "m",
       "n", "o", "p", "q", "r", "s", "t", "u", "v", "w", "x", "y", "z" >>
UpperLetters ==
    << "A", "B", "C", "D", "E", "F", "G", "H", "I", "J", "K", "L", "M",
       "N", "O", "P", "Q", "R", "S", "T", "U", "V", "W", "X", "Y", "Z" >>

ToLowerChar(c) ==
    IF \E k \in DOMAIN UpperLetters : UpperLetters[k] = c
    THEN LowerLetters[CHOOSE k \in DOMAIN UpperLetters : UpperLetters[k] = c]
    ELSE c
ToUpperChar(c) ==
    IF \E k \in DOMAIN LowerLetters : LowerLetters[k] = c
    THEN UpperLetters[CHOOSE k \in DOMAIN LowerLetters : LowerLetters[k] = c]
    ELSE c

ToLowerKeepsCase(str) == str

\* challenge.go:31: strings.ToLower
ToLower(str) == [k \in DOMAIN str |-> ToLowerChar(str[k])]

\* challenge.go:32: strings.Contains
Contains(str, pat) ==
    \E k \in 0..(Len(str) - Len(pat)) : SubSeq(str, k + 1, k + Len(pat)) = pat

\* The canonical form of a header name: the first letter and every letter
\* after a hyphen in upper case, the rest in lower case.
CanonicalKey(name) ==
    [k \in DOMAIN name |->
        IF k = 1 \/ name[k - 1] = "-" THEN ToUpperChar(name[k]) ELSE ToLowerChar(name[k])]

\* part_005:128: the header map of a response as the HTTP client builds it
\* from the header lines on the wire: names in canonical form, and the first
\* line of a name first
ReadHeader(wire) ==
    [ key \in { CanonicalKey(wire[k].name) : k \in DOMAIN wire } |->
        wire[CHOOSE k \in DOMAIN wire :
                /\ CanonicalKey(wire[k].name) = key
                /\ \A m \in DOMAIN wire : CanonicalKey(wire[m].name) = key => k <= m].value ]

\* challenge.go:31: resp.Header.Get: the value under the canonical form of the
\* asked name, or the empty string
HeaderGet(header, name) ==
    IF CanonicalKey(name) \in DOMAIN header THEN header[CanonicalKey(name)] ELSE <<>>

ServerName == <<"S", "e", "r", "v", "e", "r">>
CloudflareText == <<"c", "l", "o", "u", "d", "f", "l", "a", "r", "e">>

\* challenge.go:31-32
IsCloudflare(header) == Contains(ToLower(HeaderGet(header, ServerName)), CloudflareText)

\* challenge.go:35-42, 48-54, 60-63: the pattern lists
CaptchaMarkers ==
    { "turnstile", "challenges.cloudflare.com", "h-captcha", "data-sitekey",
      "g-recaptcha", "www.google.com/recaptcha" }
CloudflareMarkers ==
    { "Just a moment", "_cf_chl", "cf-challenge", "jschl_vc", "jschl_answer" }
GenericMarkers == { "<noscript>", "document.cookie" }
BodyLimit == 10000

\* challenge.go:70: containsAny; a body is the set of patterns it contains
\* and its length
containsAny(body, patterns) == body.has \cap patterns # {}

\* the marker families of a body, as detectChallenge tests them
Families(body) ==
    (IF containsAny(body, CaptchaMarkers) THEN {"captcha"} ELSE {})
    \cup (IF containsAny(body, CloudflareMarkers) THEN {"cf"} ELSE {})
    \cup (IF containsAny(body, GenericMarkers) THEN {"generic"} ELSE {})

\* challenge.go:30-68 on a response as it comes from the client
DetectResponse(in) ==
    detectChallenge(Reply(in.status, IsCloudflare(ReadHeader(in.wire)),
                          Families(in.body), in.body.len < BodyLimit, FALSE))

\* The responses the detector is tried on
WireNames ==
    { <<"S", "e", "r", "v", "e", "r">>, <<"s", "e", "r", "v", "e", "r">>,
      <<"S", "E", "R", "V", "E", "R">>, <<"V", "i", "a">> }
WireValues ==
    { CloudflareText,
      <<"C", "l", "o", "u", "d", "f", "l", "a", "r", "e">>,
      <<"C", "L", "O", "U", "D", "F", "L", "A", "R", "E">>,
      <<"m", "y", "-">> \o CloudflareText \o <<"-", "N", "G">>,
      <<"n", "g", "i", "n", "x">>,
      <<"c", "l", "o", "u", "d">> }
WireHeaders ==
    {<<>>} \cup { <<[name |-> n, value |-> v]>> : n \in WireNames, v \in WireValues }
AllMarkers == CaptchaMarkers \cup CloudflareMarkers \cup GenericMarkers
Bodies ==
    { [has |-> h, len |-> n] :
        h \in {{}} \cup { {a, b} : a, b \in AllMarkers },
        n \in {BodyLimit - 1, BodyLimit} }
DetectInputs ==
    { [wire |-> w, status |-> st, body |-> b] :
        w \in WireHeaders, st \in {200, 403, 500, 503}, b \in Bodies }

InitDetect ==
    /\ urls = <<>>
    /\ flagMaxParallel = 0
    /\ spawned = 0
    /\ tpc = <<>>
    /\ sem = 0
    /\ wg = 0
    /\ results = <<>>
    /\ mainpc = "none"
    /\ retval = "none"
    /\ outcome = <<>>
    /\ slotWrites = <<>>
    /\ readAt = <<>>
    /\ outOfOrder = FALSE
    /\ unreachable = {}
    /\ InitStoreIdle
    /\ flagNoCookies = FALSE
    /\ flagTimeout = "30s"
    /\ fs = <<>>
    /\ mu = <<>>
    /\ committed = <<>>
    /\ call \in { [fn |-> "detectChallenge", in |-> x, out |-> "pending"] : x \in DetectInputs }

DetectCall ==
    /\ call.fn = "detectChallenge"
    /\ call.out = "pending"
    /\ call' = [call EXCEPT !.out = DetectResponse(call.in)]
    /\ UNCHANGED <<flagNoCookies, flagTimeout, fs, mu, committed>>
    /\ UNCHANGED <<schedVars, jarVars>>

NextDetect == DetectCall

SpecDetect == InitDetect /\ [][NextDetect]_vars

\* ------------------------------------------------ the JS solver by itself
\* Strings are sequences of one-letter strings.
WatchdogSeconds == 10

\* part_004:102,104: strings.SplitN(str, sep, 2)
SplitN2(str, sep) ==
    IF \E k \in DOMAIN str : str[k] = sep
    THEN LET k == CHOOSE i \in DOMAIN str :
                     str[i] = sep /\ \A j \in 1..(i - 1) : str[j] # sep
         IN <<SubSeq(str, 1, k - 1), SubSeq(str, k + 1, Len(str))>>
    ELSE <<str>>

TrimNothing(str) == str

\* part_004:104: strings.TrimSpace
RECURSIVE TrimSpace(_)
TrimSpace(str) ==
    IF str = <<>> THEN <<>>
    ELSE IF Head(str) = " " THEN TrimSpace(Tail(str))
    ELSE IF str[Len(str)] = " " THEN TrimSpace(SubSeq(str, 1, Len(str) - 1))
    ELSE str

NoSolveResult == [CookieName |-> <<>>, CookieValue |-> <<>>]

SetCookieHelperFirstWins(result, cookieStr) ==
    LET parts == SplitN2(cookieStr, ";")
        kv    == SplitN2(TrimSpace(parts[1]), "=")
    IN IF Len(kv) = 2 /\ result.CookieName = <<>> /\ result.CookieValue = <<>>
         THEN [result EXCEPT !.CookieName = kv[1], !.CookieValue = kv[2]]
         ELSE result

\* part_004:100-111: __setCookie, which the document.cookie setter calls
\* (part_004:143-149)
SetCookieHelper(result, cookieStr) ==
    LET parts == SplitN2(cookieStr, ";")
        kv    == SplitN2(TrimSpace(parts[1]), "=")
    IN IF Len(kv) = 2
         THEN [result EXCEPT !.CookieName = kv[1], !.CookieValue = kv[2]]
         ELSE result

\* part_004:145: the getter of document.cookie
CookieGetter(result) == <<>>

\* What running a list of plain statements inside a callback does to the
\* result and to the values the script has read from document.cookie; a
\* throw ends the callback.
RECURSIVE RunCallback(_, _)
RunCallback(st, body) ==
    IF body = <<>> THEN st
    ELSE LET s == Head(body) IN
         IF s.op = "throw" THEN st
         ELSE IF s.op = "read"
           THEN RunCallback([st EXCEPT !.reads = Append(@, CookieGetter(st.result))],
                            Tail(body))
         ELSE RunCallback([st EXCEPT !.result = SetCookieHelper(@, s.text)], Tail(body))

setTimeoutDefers(st, fn) == [st EXCEPT !.rets = Append(@, 0)]

\* part_004:86-91: setTimeout calls its first argument at once when it is a
\* function, drops what the call returns or throws, and returns 0
setTimeout(st, fn) ==
    LET after == IF fn.callable
                   THEN [RunCallback(st, fn.body) EXCEPT !.ran = Append(@, Len(st.rets) + 1)]
                 ELSE st
    IN [after EXCEPT !.rets = Append(@, 0)]

\* A script is a list of statements: document.cookie = text, an endless
\* loop, or a throw.
RECURSIVE TextsUpTo(_)
TextsUpTo(n) ==
    IF n = 0 THEN {<<>>}
    ELSE TextsUpTo(n - 1)
         \cup { Append(t, ch) : t \in { x \in TextsUpTo(n - 1) : Len(x) = n - 1 },
                                ch \in {"k", "=", ";", " "} }
Stmt(op, text) == [op |-> op, text |-> text]
LoopScripts ==
    { <<Stmt("loop", <<>>)>> }
    \cup { <<Stmt("assign", t), Stmt("loop", <<>>)>> : t \in TextsUpTo(2) }
Scripts ==
    { <<Stmt("assign", t)>> : t \in TextsUpTo(MaxText) }
    \cup LoopScripts
    \cup { <<Stmt("throw", <<>>)>>,
           <<Stmt("assign", <<"k", "=", "k">>), Stmt("throw", <<>>)>> }

\* part_004:55,57,60: what Solve returns: a result and no error, or no
\* result and an error
SolveOut(err, result) == [err |-> err, hasResult |-> err = "nil", res |-> result]

SolveCallOf(script) ==
    [ fn |-> "Solve", in |-> script, out |-> SolveOut("pending", NoSolveResult), pc |-> "start", ip |-> 1,
      spin |-> 0, elapsed |-> 0, interrupt |-> FALSE, wd |-> "none",
      result |-> NoSolveResult ]

InitSolveWith(scripts) ==
    /\ urls = <<>>
    /\ flagMaxParallel = 0
    /\ spawned = 0
    /\ tpc = <<>>
    /\ sem = 0
    /\ wg = 0
    /\ results = <<>>
    /\ mainpc = "none"
    /\ retval = "none"
    /\ outcome = <<>>
    /\ slotWrites = <<>>
    /\ readAt = <<>>
    /\ outOfOrder = FALSE
    /\ unreachable = {}
    /\ InitStoreIdle
    /\ flagNoCookies = FALSE
    /\ flagTimeout = "30s"
    /\ fs = <<>>
    /\ mu = <<>>
    /\ committed = <<>>
    /\ call \in { SolveCallOf(sc) : sc \in scripts }

InitSolve == InitSolveWith(Scripts)

SolveFrame ==
    /\ UNCHANGED <<flagNoCookies, flagTimeout, fs, mu, committed>>
    /\ UNCHANGED <<schedVars, jarVars>>

\* part_004:36-50: the VM, the result, the watchdog goroutine and its timer,
\* the globals
SolveStart ==
    /\ call.fn = "Solve"
    /\ call.pc = "start"
    /\ call' = [call EXCEPT !.pc = "run", !.wd = "waiting"]
    /\ SolveFrame

\* a second passes while the watchdog waits
ClockTick ==
    /\ call.fn = "Solve"
    /\ call.wd = "waiting"
    /\ call.elapsed < WatchdogSeconds
    /\ call' = [call EXCEPT !.elapsed = @ + 1]
    /\ SolveFrame

TimerNeverFires(elapsed) == FALSE

\* part_004:44: the channel of time.After(10 * time.Second) is ready
TimerFired(elapsed) == elapsed >= WatchdogSeconds

\* part_004:44-45: the watchdog takes the timer case and interrupts the VM
WatchdogFire ==
    /\ call.fn = "Solve"
    /\ call.wd = "waiting"
    /\ TimerFired(call.elapsed)
    /\ call' = [call EXCEPT !.interrupt = TRUE, !.wd = "exited"]
    /\ SolveFrame

DoneClosedOnSuccessOnly == call.pc = "returned" /\ call.out.err = "nil"

\* part_004:48: close(done) is deferred, so done is closed once Solve returned
DoneClosed == call.pc = "returned"

\* part_004:43,48: the watchdog takes the done case after Solve closed it
WatchdogDone ==
    /\ call.fn = "Solve"
    /\ call.wd = "waiting"
    /\ DoneClosed
    /\ call' = [call EXCEPT !.wd = "exited"]
    /\ SolveFrame

\* part_004:52: vm.RunString runs one more instruction; the VM looks at the
\* interrupt flag before each
VmStep ==
    /\ call.fn = "Solve"
    /\ call.pc = "run"
    /\ call' =
         IF call.interrupt THEN [call EXCEPT !.pc = "interrupted"]
         ELSE IF call.ip > Len(call.in) THEN [call EXCEPT !.pc = "finished"]
         ELSE LET st == call.in[call.ip] IN
              IF st.op = "loop" THEN [call EXCEPT !.spin = 1 - @]
              ELSE IF st.op = "throw" THEN [call EXCEPT !.pc = "threw"]
              ELSE IF st.op = "read"
                THEN [call EXCEPT !.reads = Append(@, CookieGetter(call.result)),
                                  !.ip = @ + 1]
              ELSE IF st.op = "timeout"
                THEN [setTimeout(call, st.fn) EXCEPT !.ip = @ + 1]
              ELSE [call EXCEPT !.result = SetCookieHelper(@, st.text), !.ip = @ + 1]
    /\ SolveFrame

\* part_004:53-60 and the deferred close(done)
SolveReturn ==
    /\ call.fn = "Solve"
    /\ call.pc \in {"interrupted", "threw", "finished"}
    /\ call' = [call EXCEPT
                  !.pc = "returned",
                  !.out = IF call.pc = "interrupted"
                            THEN SolveOut("JS execution timed out", NoSolveResult)
                          ELSE IF call.pc = "threw"
                            THEN SolveOut("JS execution error", NoSolveResult)
                          ELSE SolveOut("nil", call.result)]
    /\ SolveFrame

NextSolve ==
    \/ SolveStart
    \/ ClockTick
    \/ WatchdogFire
    \/ WatchdogDone
    \/ VmStep
    \/ SolveReturn

SpecSolve == InitSolve /\ [][NextSolve]_vars

\* Time passes, every goroutine that can run is run in the end, and the VM
\* goes on executing while RunString has not returned.
InitSolveLive ==
    InitSolveWith(LoopScripts \cup { <<Stmt("throw", <<>>)>>,
                                     <<Stmt("assign", <<"k", "=", "k">>)>> })

SpecSolveLive ==
    /\ InitSolveLive
    /\ [][NextSolve]_vars
    /\ WF_vars(SolveStart)
    /\ WF_vars(ClockTick)
    /\ WF_vars(WatchdogFire)
    /\ WF_vars(WatchdogDone)
    /\ WF_vars(VmStep)
    /\ WF_vars(SolveReturn)

\* ------------------------------------------- the per-fetch deadline by itself

\* One operation on its own: every other variable idle, `call` one of calls
InitCall(calls) ==
    /\ urls = <<>>
    /\ flagMaxParallel = 0
    /\ spawned = 0
    /\ tpc = <<>>
    /\ sem = 0
    /\ wg = 0
    /\ results = <<>>
    /\ mainpc = "none"
    /\ retval = "none"
    /\ outcome = <<>>
    /\ slotWrites = <<>>
    /\ readAt = <<>>
    /\ outOfOrder = FALSE
    /\ unreachable = {}
    /\ InitStoreIdle
    /\ flagNoCookies = FALSE
    /\ flagTimeout = "30s"
    /\ fs = <<>>
    /\ mu = <<>>
    /\ committed = <<>>
    /\ call \in calls

\* docs/plans implementation 1620 and 1719: const maxPolls = 60
MaxPolls == 60

\* The steps of one fetchOne call in which it waits for something outside
\* itself, and what there is to wait for. `stall` names the step at which the
\* peer never answers; `tls` is whether the target is https; `kind` is the
\* class of the first response; `loops` is whether the challenge script
\* runs forever.
DeadlineCallOf(stall, tls, kind, loops) ==
    [ fn |-> "fetchOne",
      in |-> [stall |-> stall, tls |-> tls, kind |-> kind, loops |-> loops],
      out |-> [err |-> "pending"],
      pc |-> "dial", attempt |-> 1, expired |-> FALSE, beat |-> 0,
      elapsed |-> 0, polls |-> 0 ]

DeadlineCalls ==
    { DeadlineCallOf(stall, tls, kind, loops) :
        stall \in {"none", "dial", "handshake", "read", "poll"},
        tls \in BOOLEAN, kind \in {"none", "js", "captcha"}, loops \in BOOLEAN }

InitDeadline == InitCall(DeadlineCalls)

DeadlineReturn(c, err) == [c EXCEPT !.pc = "returned", !.out = [err |-> err]]

\* a step that is given the context: it fails at once when the deadline has
\* passed (net.Dialer.DialContext, a request built with the context)
CtxStep(c, next) ==
    IF c.expired THEN DeadlineReturn(c, "context deadline exceeded")
    ELSE [c EXCEPT !.pc = next]

\* part_003:58-60: the timer of context.WithTimeout fires
DeadlineExpire ==
    /\ call.fn = "fetchOne"
    /\ call.pc # "returned"
    /\ ~call.expired
    /\ call' = [call EXCEPT !.expired = TRUE]
    /\ SolveFrame

\* time goes on while fetchOne has not returned
TimePasses ==
    /\ call.fn = "fetchOne"
    /\ call.pc # "returned"
    /\ call' = [call EXCEPT !.beat = 1 - @]
    /\ SolveFrame

\* part_005:56-60 (and the plain TCP dial of the HTTP/1.1 transport for an
\* http target): the peer accepts the connection
DialDone ==
    /\ call.fn = "fetchOne"
    /\ call.pc = "dial"
    /\ call.in.stall # "dial"
    /\ ~call.expired
    /\ call' = [call EXCEPT !.pc = IF call.in.tls THEN "handshake" ELSE "read"]
    /\ SolveFrame

\* The steps the expired context cuts short: the TCP dial (part_005:56-57),
\* sending the request and reading the response (part_005:99,128,146), the
\* captcha submit, the poll wait and the poll request. The TLS handshake is
\* not among them: tlsConn.Handshake() (part_005:65) is not given the
\* context, and the HTTP/2 transport waits for its dial to finish.
AbortedByContext == {"dial", "read", "csubmit", "cwait", "cpoll"}

ContextAbort ==
    /\ call.fn = "fetchOne"
    /\ call.expired
    /\ call.pc \in AbortedByContext
    /\ call' = DeadlineReturn(call, "context deadline exceeded")
    /\ SolveFrame

\* part_005:65-69,84: the peer completes the handshake; the request is then
\* sent under the context
HandshakeDone ==
    /\ call.fn = "fetchOne"
    /\ call.pc = "handshake"
    /\ call.in.stall # "handshake"
    /\ call' = CtxStep(call, "read")
    /\ SolveFrame

\* part_005:128-150 and part_003:101-149, 141-146, 186-189: the response has
\* been read; the first one is classified, the second one is final
ReadDone ==
    /\ call.fn = "fetchOne"
    /\ call.pc = "read"
    /\ call.in.stall # "read"
    /\ ~call.expired
    /\ call' = IF call.attempt = 2 \/ call.in.kind = "none"
                 THEN DeadlineReturn(call, "nil")
               ELSE IF call.in.kind = "js" THEN [call EXCEPT !.pc = "solve"]
               ELSE [call EXCEPT !.pc = "csubmit"]
    /\ SolveFrame

\* part_004:40-47: a second of the solver's own ten passes
SolveSecond ==
    /\ call.fn = "fetchOne"
    /\ call.pc = "solve"
    /\ call.elapsed < WatchdogSeconds
    /\ call' = [call EXCEPT !.elapsed = @ + 1]
    /\ SolveFrame

\* part_003:117-144: Solve is not given the context; a script that ends
\* gives a cookie and the retry is started
SolveDone ==
    /\ call.fn = "fetchOne"
    /\ call.pc = "solve"
    /\ ~call.in.loops
    /\ call' = CtxStep([call EXCEPT !.attempt = 2], "dial")
    /\ SolveFrame

\* part_004:44-45,53-55 and part_003:118-121: the solver's interrupt; the
\* solver error is not fatal and the first response is returned
SolveInterrupted ==
    /\ call.fn = "fetchOne"
    /\ call.pc = "solve"
    /\ call.in.loops
    /\ TimerFired(call.elapsed)
    /\ call' = DeadlineReturn(call, "nil")
    /\ SolveFrame

\* docs/plans implementation 1589-1616: the submit is answered
SubmitDone ==
    /\ call.fn = "fetchOne"
    /\ call.pc = "csubmit"
    /\ ~call.expired
    /\ call' = [call EXCEPT !.pc = "cwait"]
    /\ SolveFrame

\* docs/plans implementation 1622-1627: the poll interval is over
PollWaitDone ==
    /\ call.fn = "fetchOne"
    /\ call.pc = "cwait"
    /\ ~call.expired
    /\ call' = [call EXCEPT !.pc = "cpoll", !.polls = @ + 1]
    /\ SolveFrame

\* docs/plans implementation 1629-1663 and part_003:167-189: the poll is
\* answered: ready (the retry is started), or not yet
PollDone ==
    /\ call.fn = "fetchOne"
    /\ call.pc = "cpoll"
    /\ call.in.stall # "poll"
    /\ ~call.expired
    /\ \E ready \in BOOLEAN :
         call' = IF ready THEN CtxStep([call EXCEPT !.attempt = 2], "dial")
                 ELSE IF call.polls >= MaxPolls
                   THEN DeadlineReturn(call, "captcha solve failed")
                 ELSE [call EXCEPT !.pc = "cwait"]
    /\ SolveFrame

NextDeadline ==
    \/ DeadlineExpire
    \/ TimePasses
    \/ DialDone
    \/ ContextAbort
    \/ HandshakeDone
    \/ ReadDone
    \/ SolveSecond
    \/ SolveDone
    \/ SolveInterrupted
    \/ SubmitDone
    \/ PollWaitDone
    \/ PollDone

SpecDeadline == InitDeadline /\ [][NextDeadline]_vars

\* Time passes, so the deadline expires and the timers fire; a peer that is
\* not stalled answers in the end; a goroutine whose wait is over runs.
SpecDeadlineLive ==
    /\ InitDeadline
    /\ [][NextDeadline]_vars
    /\ WF_vars(DeadlineExpire)
    /\ WF_vars(TimePasses)
    /\ WF_vars(DialDone)
    /\ WF_vars(ContextAbort)
    /\ WF_vars(HandshakeDone)
    /\ WF_vars(ReadDone)
    /\ WF_vars(SolveSecond)
    /\ WF_vars(SolveDone)
    /\ WF_vars(SolveInterrupted)
    /\ WF_vars(SubmitDone)
    /\ WF_vars(PollWaitDone)
    /\ WF_vars(PollDone)

\* ----------------------------------------------- the redirect limit by itself

\* part_005:121: the number of earlier requests at which CheckRedirect refuses
RedirectLimit == 10

\* One doFetch call against a server that answers the first `hops` requests
\* of the chain with a redirect of the given status and the next one with a
\* final response. `via` is the list of requests sent so far, by number.
RedirectCallOf(hops, status) ==
    [ fn |-> "doFetch", in |-> [hops |-> hops, status |-> status],
      out |-> [err |-> "pending", hasResp |-> FALSE, hasBody |-> FALSE, from |-> 0],
      pc |-> "send", via |-> <<>> ]

RedirectCalls ==
    { RedirectCallOf(hops, status) : hops \in 0..MaxChain, status \in {301, 302, 307} }

InitRedirect == InitCall(RedirectCalls)

\* part_005:128 (http.Client.Do): the next request of the chain is sent and
\* answered, by a redirect while the chain lasts, by the final response then;
\* part_005:132-150: the final response and its body are returned
RedirectSend ==
    /\ call.fn = "doFetch"
    /\ call.pc = "send"
    /\ LET via == Append(call.via, Len(call.via) + 1) IN
         call' = IF Len(via) <= call.in.hops
                   THEN [call EXCEPT !.via = via, !.pc = "check"]
                 ELSE [call EXCEPT !.via = via, !.pc = "returned",
                                   !.out = [err |-> "nil", hasResp |-> TRUE,
                                            hasBody |-> TRUE, from |-> Len(via)]]
    /\ SolveFrame

\* part_005:120-125: the CheckRedirect function, given the requests so far
CheckRedirect(via) ==
    IF Len(via) >= RedirectLimit THEN "too many redirects" ELSE "nil"

\* part_005:128-131: the client asks CheckRedirect before it follows; on its
\* error Do fails and doFetchWithBody returns nil, nil, err
RedirectCheck ==
    /\ call.fn = "doFetch"
    /\ call.pc = "check"
    /\ call' = IF CheckRedirect(call.via) # "nil"
                 THEN [call EXCEPT !.pc = "returned",
                                   !.out = [err |-> CheckRedirect(call.via),
                                            hasResp |-> FALSE, hasBody |-> FALSE,
                                            from |-> 0]]
               ELSE [call EXCEPT !.pc = "send"]
    /\ SolveFrame

NextRedirect ==
    \/ RedirectSend
    \/ RedirectCheck

SpecRedirect == InitRedirect /\ [][NextRedirect]_vars

\* ------------------------------------------------ the captcha adapter by itself

\* What one HTTP exchange with the captcha service gives back: ok is FALSE
\* when the request fails or its body is not JSON; status and request are the
\* fields of a 2captcha answer; errorId, astatus, token and gresp those of an
\* anti-captcha answer (status, solution.token, solution.gRecaptchaResponse).
ServiceAnswer(ok, status, request, errorId, astatus, token, gresp) ==
    [ ok |-> ok, status |-> status, request |-> request, errorId |-> errorId,
      astatus |-> astatus, token |-> token, gresp |-> gresp ]

NoAnswer == ServiceAnswer(FALSE, 0, "", 0, "", "", "")

TwoCaptchaAnswers ==
    { ServiceAnswer(TRUE, st, rq, 0, "", "", "") :
        st \in {0, 1},
        rq \in {"CAPCHA_NOT_READY", "ERROR_CAPTCHA_UNSOLVABLE", "TOKEN"} }
    \cup {NoAnswer}

AntiCaptchaAnswers ==
    { ServiceAnswer(TRUE, 0, "", eid, ast, tk, gr) :
        eid \in {0, 1}, ast \in {"processing", "ready"},
        tk \in {"", "tok"}, gr \in {"", "gresp"} }
    \cup {NoAnswer}

Answers(service) ==
    IF service = "2captcha" THEN TwoCaptchaAnswers ELSE AntiCaptchaAnswers

\* What the solve does with an answer: go on ("again"), or return
Outcome(kind, err, token) == [kind |-> kind, err |-> err, token |-> token]

\* docs/plans implementation 1596-1616
Submit2Captcha(r) ==
    IF ~r.ok THEN Outcome("return", "2captcha: submit request failed", "")
    ELSE IF r.status # 1 THEN Outcome("return", r.request, "")
    ELSE Outcome("again", "nil", "")

Poll2CaptchaStatusOnly(r) ==
    IF ~r.ok THEN Outcome("return", "2captcha: poll request failed", "")
    ELSE IF r.status = 1 THEN Outcome("return", "nil", r.request)
    ELSE Outcome("again", "nil", "")

\* docs/plans implementation 1634-1662
Poll2Captcha(r) ==
    IF ~r.ok THEN Outcome("return", "2captcha: poll request failed", "")
    ELSE IF r.status = 1 THEN Outcome("return", "nil", r.request)
    ELSE IF r.request # "CAPCHA_NOT_READY" THEN Outcome("return", r.request, "")
    ELSE Outcome("again", "nil", "")

\* docs/plans implementation 1695-1714
SubmitAntiCaptcha(r) ==
    IF ~r.ok THEN Outcome("return", "anticaptcha: create request failed", "")
    ELSE IF r.errorId # 0 THEN Outcome("return", "anticaptcha: create failed", "")
    ELSE Outcome("again", "nil", "")

PollAntiCaptchaReadyFirst(r) ==
    IF ~r.ok THEN Outcome("return", "anticaptcha: poll request failed", "")
    ELSE IF r.astatus = "ready"
      THEN Outcome("return", "nil", IF r.token = "" THEN r.gresp ELSE r.token)
    ELSE IF r.errorId # 0 THEN Outcome("return", "anticaptcha: solve failed", "")
    ELSE Outcome("again", "nil", "")

\* docs/plans implementation 1741-1779
PollAntiCaptcha(r) ==
    IF ~r.ok THEN Outcome("return", "anticaptcha: poll request failed", "")
    ELSE IF r.errorId # 0 THEN Outcome("return", "anticaptcha: solve failed", "")
    ELSE IF r.astatus = "ready"
      THEN Outcome("return", "nil", IF r.token = "" THEN r.gresp ELSE r.token)
    ELSE Outcome("again", "nil", "")

SubmitOutcome(service, r) ==
    IF service = "2captcha" THEN Submit2Captcha(r) ELSE SubmitAntiCaptcha(r)

PollOutcome(service, r) ==
    IF service = "2captcha" THEN Poll2Captcha(r) ELSE PollAntiCaptcha(r)

LoopGoesOnOneMore(i) == i < MaxPolls + 1

\* docs/plans implementation 1622 and 1721: the loop condition i < maxPolls
LoopGoesOn(i) == i < MaxPolls

\* One Solve call: the requests handed to the HTTP client (submits, polls),
\* the waits that ended by the timer, the answer to the submit, the last
\* answer and which request it answered.
CaptchaCallOf(service) ==
    [ fn |-> "CaptchaSolve", in |-> service,
      out |-> [err |-> "pending", token |-> ""],
      pc |-> "submit", submits |-> 0, polls |-> 0, waits |-> 0,
      ctxDone |-> FALSE, timer |-> FALSE, last |-> NoAnswer, lastFor |-> "none",
      submitted |-> NoAnswer ]

InitCaptcha == InitCall({ CaptchaCallOf(s) : s \in {"2captcha", "anticaptcha"} })

CaptchaReturn(c, err, token) ==
    [c EXCEPT !.pc = "returned", !.out = [err |-> err, token |-> token]]

\* the context passed to Solve is done (deadline or cancel)
CaptchaCtxDone ==
    /\ call.fn = "CaptchaSolve"
    /\ call.pc # "returned"
    /\ ~call.ctxDone
    /\ call' = [call EXCEPT !.ctxDone = TRUE]
    /\ SolveFrame

\* docs/plans implementation 1589-1616 and 1688-1714: the submit request is
\* handed to the client; with the context done it fails unsent
CaptchaSubmit ==
    /\ call.fn = "CaptchaSolve"
    /\ call.pc = "submit"
    /\ LET c == [call EXCEPT !.submits = @ + 1] IN
         IF call.ctxDone
           THEN call' = CaptchaReturn(c, "context done", "")
         ELSE \E r \in Answers(call.in) :
                LET o == SubmitOutcome(call.in, r)
                    d == [c EXCEPT !.last = r, !.lastFor = "submit", !.submitted = r] IN
                call' = IF o.kind = "return" THEN CaptchaReturn(d, o.err, o.token)
                        ELSE IF LoopGoesOn(0) THEN [d EXCEPT !.pc = "wait", !.timer = FALSE]
                        ELSE CaptchaReturn(d, "timed out", "")
    /\ SolveFrame

\* docs/plans implementation 1626 and 1725: time.After(pollInterval) is ready
PollTimerFire ==
    /\ call.fn = "CaptchaSolve"
    /\ call.pc = "wait"
    /\ ~call.timer
    /\ call' = [call EXCEPT !.timer = TRUE]
    /\ SolveFrame

\* docs/plans implementation 1623-1625 and 1722-1724: the select takes the
\* ctx.Done() case
WaitEndsByContext ==
    /\ call.fn = "CaptchaSolve"
    /\ call.pc = "wait"
    /\ call.ctxDone
    /\ call' = CaptchaReturn(call, "context done", "")
    /\ SolveFrame

\* docs/plans implementation 1626 and 1725: the select takes the timer case
WaitEndsByTimer ==
    /\ call.fn = "CaptchaSolve"
    /\ call.pc = "wait"
    /\ call.timer
    /\ call' = [call EXCEPT !.pc = "poll", !.waits = @ + 1]
    /\ SolveFrame

\* docs/plans implementation 1629-1663 and 1728-1780: the poll request is
\* handed to the client and its answer is acted on; i++ and the loop test
CaptchaPoll ==
    /\ call.fn = "CaptchaSolve"
    /\ call.pc = "poll"
    /\ LET c == [call EXCEPT !.polls = @ + 1] IN
         IF call.ctxDone
           THEN call' = CaptchaReturn(c, "context done", "")
         ELSE \E r \in Answers(call.in) :
                LET o == PollOutcome(call.in, r)
                    d == [c EXCEPT !.last = r, !.lastFor = "poll"] IN
                call' = IF o.kind = "return" THEN CaptchaReturn(d, o.err, o.token)
                        ELSE IF LoopGoesOn(c.polls) THEN [d EXCEPT !.pc = "wait", !.timer = FALSE]
                        ELSE CaptchaReturn(d, "timed out", "")
    /\ SolveFrame

NextCaptcha ==
    \/ CaptchaCtxDone
    \/ CaptchaSubmit
    \/ PollTimerFire
    \/ WaitEndsByContext
    \/ WaitEndsByTimer
    \/ CaptchaPoll

SpecCaptcha == InitCaptcha /\ [][NextCaptcha]_vars

\* Every request handed to the client returns (the client has a 30 s timeout
\* of its own), the poll timer fires, and the goroutine runs when it can.
SpecCaptchaLive ==
    /\ InitCaptcha
    /\ [][NextCaptcha]_vars
    /\ WF_vars(CaptchaSubmit)
    /\ WF_vars(PollTimerFire)
    /\ WF_vars(WaitEndsByContext)
    /\ WF_vars(WaitEndsByTimer)
    /\ WF_vars(CaptchaPoll)

\* ------------------------------------------- building the captcha adapter

\* docs/plans implementation 1547-1554: the base URL the switch picks
CaptchaBaseURL(service) ==
    IF service = "2captcha" THEN "https://2captcha.com"
    ELSE IF service = "anticaptcha" THEN "https://api.anti-captcha.com"
    ELSE ""

NoAdapter == [service |-> "", apiKey |-> "", baseURL |-> ""]

\* docs/plans implementation 1540-1557: the adapter and the error returned
NewAdapter(service, apiKey) ==
    IF newCaptchaSolver(service)
      THEN [ ok |-> TRUE, err |-> "nil",
             solver |-> [ service |-> service, apiKey |-> apiKey,
                          baseURL |-> CaptchaBaseURL(service) ] ]
    ELSE [ ok |-> FALSE, err |-> "unsupported captcha service", solver |-> NoAdapter ]

\* service names and keys tried: the two supported names, the empty string,
\* and names that differ from a supported one by case, a space or a letter
AdapterNames ==
    { "", "2captcha", "anticaptcha", "2Captcha", "ANTICAPTCHA", "2captcha ",
      "anti-captcha", "capsolver", "unknown", "1captcha" }
AdapterKeys == {"", "key", "fake-key", "k1", "k2"}

AdapterCallOf(service, apiKey) ==
    [ fn |-> "newCaptchaSolver", in |-> [service |-> service, apiKey |-> apiKey],
      out |-> [ok |-> FALSE, err |-> "pending", solver |-> NoAdapter],
      pc |-> "new", requests |-> <<>> ]

InitAdapter ==
    InitCall({ AdapterCallOf(s, k) : s \in AdapterNames, k \in AdapterKeys })

\* part_003:160-163: the caller builds the adapter
AdapterNew ==
    /\ call.fn = "newCaptchaSolver"
    /\ call.pc = "new"
    /\ call' = [call EXCEPT !.pc = "made",
                            !.out = NewAdapter(call.in.service, call.in.apiKey)]
    /\ SolveFrame

\* part_003:161-167: only a caller that got an adapter goes on to Solve,
\* whose first request goes to the adapter's base URL
AdapterSolve ==
    /\ call.fn = "newCaptchaSolver"
    /\ call.pc = "made"
    /\ call.out.ok
    /\ call' = [call EXCEPT !.pc = "used",
                            !.requests = Append(@, call.out.solver.baseURL)]
    /\ SolveFrame

NextAdapter ==
    \/ AdapterNew
    \/ AdapterSolve

SpecAdapter == InitAdapter /\ [][NextAdapter]_vars

\* ------------------------------------------------------ extractSitekey by itself

\* A page body is a sequence of tokens: the attribute prefix, the two quote
\* characters, a plain character, and the four class markers.
AttrPrefix == "data-sitekey="
SitekeyTokens ==
    { AttrPrefix, "\"", "'", "k", "cf-turnstile", "turnstile", "h-captcha",
      "g-recaptcha" }

IsQuote(tok) == tok \in {"\"", "'"}

\* bytes.Contains on a tokenised body: a token holds the text when it is the
\* text, and "cf-turnstile" holds "turnstile" as well
BytesContain(body, text) ==
    \E k \in DOMAIN body :
        \/ body[k] = text
        \/ body[k] = "cf-turnstile" /\ text = "turnstile"

\* the first quote at or after position j, or Len(body) + 1
RECURSIVE NextQuote(_, _)
NextQuote(body, j) ==
    IF j > Len(body) THEN Len(body) + 1
    ELSE IF IsQuote(body[j]) THEN j
    ELSE NextQuote(body, j + 1)

\* docs/plans implementation 1503: data-sitekey=["']([^"']+)["'] tried at
\* position i: the prefix, a quote, one or more non-quotes, a quote
MatchesAt(body, i) ==
    /\ i + 3 <= Len(body)
    /\ body[i] = AttrPrefix
    /\ IsQuote(body[i + 1])
    /\ ~IsQuote(body[i + 2])
    /\ NextQuote(body, i + 2) <= Len(body)

\* regexp FindSubmatch: the leftmost match and its group, or none
RECURSIVE FindSubmatchFrom(_, _)
FindSubmatchFrom(body, i) ==
    IF i > Len(body) THEN [found |-> FALSE, group |-> <<>>]
    ELSE IF MatchesAt(body, i)
      THEN [found |-> TRUE, group |-> SubSeq(body, i + 2, NextQuote(body, i + 2) - 1)]
    ELSE FindSubmatchFrom(body, i + 1)

FindSubmatch(body) == FindSubmatchFrom(body, 1)

CaptchaTypeRecaptchaFirst(body) ==
    IF BytesContain(body, "g-recaptcha") THEN "recaptcha"
    ELSE IF BytesContain(body, "h-captcha") THEN "hcaptcha"
    ELSE IF BytesContain(body, "cf-turnstile") \/ BytesContain(body, "turnstile")
      THEN "turnstile"
    ELSE "unknown"

\* docs/plans implementation 1516-1525: the switch on the markers
CaptchaTypeOf(body) ==
    IF BytesContain(body, "cf-turnstile") \/ BytesContain(body, "turnstile")
      THEN "turnstile"
    ELSE IF BytesContain(body, "h-captcha") THEN "hcaptcha"
    ELSE IF BytesContain(body, "g-recaptcha") THEN "recaptcha"
    ELSE "unknown"

\* docs/plans implementation 1509-1527
extractSitekey(body) ==
    LET m == FindSubmatch(body) IN
    IF ~m.found THEN [sitekey |-> <<>>, captchaType |-> ""]
    ELSE [sitekey |-> m.group, captchaType |-> CaptchaTypeOf(body)]

RECURSIVE BodiesUpTo(_)
BodiesUpTo(n) ==
    IF n = 0 THEN {<<>>}
    ELSE BodiesUpTo(n - 1)
         \cup { Append(b, tok) : b \in { x \in BodiesUpTo(n - 1) : Len(x) = n - 1 },
                                 tok \in SitekeyTokens }

SitekeyCallOf(body) ==
    [ fn |-> "extractSitekey", in |-> body,
      out |-> [sitekey |-> <<>>, captchaType |-> "pending"], pc |-> "call" ]

InitSitekey == InitCall({ SitekeyCallOf(b) : b \in BodiesUpTo(MaxBody) })

SitekeyCall ==
    /\ call.fn = "extractSitekey"
    /\ call.pc = "call"
    /\ call' = [call EXCEPT !.pc = "returned", !.out = extractSitekey(call.in)]
    /\ SolveFrame

NextSitekey ==
    \/ SitekeyCall

SpecSitekey == InitSitekey /\ [][NextSitekey]_vars

\* ---------------------------------------------------- browser profiles by themselves

\* part_009:24-43
chromeProfile ==
    [ Name |-> "chrome", TLSHello |-> "HelloChrome_Auto",
      Headers |-> <<
        <<"User-Agent", "Mozilla/5.0 (Windows NT 10.0; Win64; x64) AppleWebKit/537.36 (KHTML, like Gecko) Chrome/133.0.0.0 Safari/537.36">>,
        <<"Accept", "text/html,application/xhtml+xml,application/xml;q=0.9,image/avif,image/webp,image/apng,*/*;q=0.8">>,
        <<"Accept-Language", "en-US,en;q=0.9">>,
        <<"Accept-Encoding", "gzip, deflate, br, zstd">>,
        <<"Sec-Ch-Ua", "\"Chromium\";v=\"133\", \"Not(A:Brand\";v=\"99\", \"Google Chrome\";v=\"133\"">>,
        <<"Sec-Ch-Ua-Mobile", "?0">>,
        <<"Sec-Ch-Ua-Platform", "\"Windows\"">>,
        <<"Sec-Fetch-Site", "none">>,
        <<"Sec-Fetch-Mode", "navigate">>,
        <<"Sec-Fetch-User", "?1">>,
        <<"Sec-Fetch-Dest", "document">>,
        <<"Upgrade-Insecure-Requests", "1">> >> ]

\* part_009:45-61
firefoxProfile ==
    [ Name |-> "firefox", TLSHello |-> "HelloFirefox_Auto",
      Headers |-> <<
        <<"User-Agent", "Mozilla/5.0 (Windows NT 10.0; Win64; x64; rv:134.0) Gecko/20100101 Firefox/134.0">>,
        <<"Accept", "text/html,application/xhtml+xml,application/xml;q=0.9,*/*;q=0.8">>,
        <<"Accept-Language", "en-US,en;q=0.5">>,
        <<"Accept-Encoding", "gzip, deflate, br, zstd">>,
        <<"Sec-Fetch-Dest", "document">>,
        <<"Sec-Fetch-Mode", "navigate">>,
        <<"Sec-Fetch-Site", "none">>,
        <<"Sec-Fetch-User", "?1">>,
        <<"Upgrade-Insecure-Requests", "1">> >> ]

getProfileFirefoxDefault(name) ==
    CASE name = "chrome" -> chromeProfile
      [] OTHER -> firefoxProfile

\* part_009:13-22
getProfile(name) ==
    CASE name = "firefox" -> firefoxProfile
      [] name = "chrome" -> chromeProfile
      [] OTHER -> chromeProfile

\* the values of the browser option
BrowserNames ==
    { "", "chrome", "firefox", "Firefox", "FIREFOX", " firefox", "firefox ",
      "safari", "something-unknown", "chromium" }

\* the extra headers a caller of the executor may pass
ExtraHeaderLists ==
    { <<>>, << <<"User-Agent", "curl/8.0">> >>, << <<"X-Test", "1">> >>,
      << <<"Accept", "*/*">>, <<"X-Test", "1">> >> }

\* http.Header.Set: one value per name
HeaderSet(hs, name, value) == { p \in hs : p[1] # name } \cup { <<name, value>> }

RECURSIVE ApplyHeaders(_, _)
ApplyHeaders(hs, list) ==
    IF list = <<>> THEN hs
    ELSE ApplyHeaders(HeaderSet(hs, Head(list)[1], Head(list)[2]), Tail(list))

\* part_005:105-112: the profile's headers in order, then the overrides
RequestHeaders(profile, extraHeaders) ==
    ApplyHeaders(ApplyHeaders({}, profile.Headers), extraHeaders)

NoProfile == [Name |-> "", TLSHello |-> "", Headers |-> <<>>]

ProfileCallOf(name, verbose) ==
    [ fn |-> "getProfile", in |-> name, verbose |-> verbose, pc |-> "start",
      out |-> NoProfile, profile |-> NoProfile, rt |-> NoProfile,
      hello |-> "", sent |-> {}, requests |-> 0, log |-> "" ]

InitProfile ==
    InitCall({ ProfileCallOf(n, v) : n \in BrowserNames, v \in BOOLEAN })

\* part_009:13-22 called by itself
ProfileGet ==
    /\ call.fn = "getProfile"
    /\ call.pc = "start"
    /\ call' = [call EXCEPT !.pc = "got", !.out = getProfile(call.in)]
    /\ SolveFrame

\* part_003:62-70: the fetch's own lookup, with the empty name read as chrome
ProfileOfFetch ==
    /\ call.fn = "getProfile"
    /\ call.pc = "got"
    /\ LET browser == IF call.in = "" THEN "chrome" ELSE call.in
           p == getProfile(browser)
       IN call' = [call EXCEPT !.pc = "profile", !.profile = p,
                               !.log = IF call.verbose THEN p.Name ELSE ""]
    /\ SolveFrame

\* part_005:29-47: the transport keeps a copy of the profile
ProfileNewTransport ==
    /\ call.fn = "getProfile"
    /\ call.pc = "profile"
    /\ call' = [call EXCEPT !.pc = "transport", !.rt = call.profile]
    /\ SolveFrame

\* part_005:51-70: a dial reads the fingerprint of the transport's copy
ProfileDial ==
    /\ call.fn = "getProfile"
    /\ call.pc = "transport"
    /\ call' = [call EXCEPT !.pc = "dialed", !.hello = call.rt.TLSHello]
    /\ SolveFrame

\* part_005:94-116: a request copies the profile's headers into its own header
\* map and applies the overrides there; a fetch sends at most two
ProfileRequest ==
    /\ call.fn = "getProfile"
    /\ call.pc = "dialed"
    /\ call.requests < 2
    /\ \E extra \in ExtraHeaderLists :
         call' = [call EXCEPT !.sent = RequestHeaders(call.profile, extra),
                              !.requests = @ + 1]
    /\ SolveFrame

ProfileReturn ==
    /\ call.fn = "getProfile"
    /\ call.pc = "dialed"
    /\ call.requests >= 1
    /\ call' = [call EXCEPT !.pc = "returned"]
    /\ SolveFrame

NextProfile ==
    \/ ProfileGet
    \/ ProfileOfFetch
    \/ ProfileNewTransport
    \/ ProfileDial
    \/ ProfileRequest
    \/ ProfileReturn

SpecProfile == InitProfile /\ [][NextProfile]_vars

\* ------------------------------------------------ scripts of several statements
\* Statements here also read document.cookie and call setTimeout(fn, ms); fn
\* is a function with a body of plain statements, or not a function.
ScriptStmt(op, text, ms, fn) == [op |-> op, text |-> text, ms |-> ms, fn |-> fn]
NoFn == [callable |-> FALSE, body |-> <<>>]
Fn(body) == [callable |-> TRUE, body |-> body]

CookieTexts ==
    { <<"a", "=", "1">>, <<"b", "=", "2">>, <<"j">>,
      <<" ", "c", "=", "3", " ", ";", "p">>, <<";", "e", "=", "5">> }

Callbacks ==
    { NoFn, Fn(<<Stmt("assign", <<"b", "=", "2">>)>>),
      Fn(<<Stmt("assign", <<"a", "=", "1">>), Stmt("throw", <<>>),
           Stmt("assign", <<"b", "=", "2">>)>>) }

ScriptStmts ==
    { ScriptStmt("assign", t, 0, NoFn) : t \in CookieTexts }
    \cup { ScriptStmt("read", <<>>, 0, NoFn), ScriptStmt("throw", <<>>, 0, NoFn) }
    \cup { ScriptStmt("timeout", <<>>, ms, fn) : ms \in {0, 5000}, fn \in Callbacks }

RECURSIVE ScriptsUpTo(_)
ScriptsUpTo(n) ==
    IF n = 0 THEN {<<>>}
    ELSE ScriptsUpTo(n - 1)
         \cup { Append(sc, s) : sc \in { x \in ScriptsUpTo(n - 1) : Len(x) = n - 1 },
                                s \in ScriptStmts }

ScriptCallOf(script) ==
    [ fn |-> "Solve", in |-> script, out |-> SolveOut("pending", NoSolveResult),
      pc |-> "start", ip |-> 1, spin |-> 0, elapsed |-> 0, interrupt |-> FALSE,
      wd |-> "none", result |-> NoSolveResult, reads |-> <<>>, rets |-> <<>>,
      ran |-> <<>> ]

InitScript == InitCall({ ScriptCallOf(sc) : sc \in ScriptsUpTo(MaxStmts) })

SpecScript == InitScript /\ [][NextSolve]_vars

\* ------------------------------------------------ the response body by itself
\* A body is a sequence of the bytes "x" and "y". Its gzip stream is a header
\* token, one token per byte and a trailer; its brotli stream is one token
\* per byte and an end token. Header values are sequences of characters.
RECURSIVE PlainsUpTo(_)
PlainsUpTo(n) ==
    IF n = 0 THEN {<<>>}
    ELSE PlainsUpTo(n - 1)
         \cup { Append(p, b) : p \in { x \in PlainsUpTo(n - 1) : Len(x) = n - 1 },
                               b \in {"x", "y"} }

GzipOf(plain) ==
    <<"GZ">> \o [k \in DOMAIN plain |-> IF plain[k] = "x" THEN "g1" ELSE "g2"] \o <<"CRC">>

BrotliOf(plain) ==
    [k \in DOMAIN plain |-> IF plain[k] = "x" THEN "b1" ELSE "b2"] \o <<"LAST">>

\* compress/gzip Reader: the members of the stream one after the other; a
\* missing trailer, a token that is no gzip data, or data after a member that
\* is no gzip header is an error
RECURSIVE GunzipMember(_, _)
GunzipMember(stream, acc) ==
    IF stream = <<>> THEN [err |-> "unexpected EOF", data |-> <<>>]
    ELSE IF Head(stream) = "g1" THEN GunzipMember(Tail(stream), Append(acc, "x"))
    ELSE IF Head(stream) = "g2" THEN GunzipMember(Tail(stream), Append(acc, "y"))
    ELSE IF Head(stream) = "CRC"
      THEN IF Tail(stream) = <<>> THEN [err |-> "nil", data |-> acc]
           ELSE IF Head(Tail(stream)) = "GZ" THEN GunzipMember(Tail(Tail(stream)), acc)
           ELSE [err |-> "invalid header", data |-> <<>>]
    ELSE [err |-> "corrupt input", data |-> <<>>]

\* brotli Reader: a token that is no brotli data or a missing end is an error
RECURSIVE Unbrotli(_, _)
Unbrotli(stream, acc) ==
    IF stream = <<>> THEN [err |-> "unexpected EOF", data |-> <<>>]
    ELSE IF Head(stream) = "b1" THEN Unbrotli(Tail(stream), Append(acc, "x"))
    ELSE IF Head(stream) = "b2" THEN Unbrotli(Tail(stream), Append(acc, "y"))
    ELSE IF Head(stream) = "LAST" /\ Tail(stream) = <<>> THEN [err |-> "nil", data |-> acc]
    ELSE [err |-> "corrupt input", data |-> <<>>]

ContentEncodingName == <<"C", "o", "n", "t", "e", "n", "t", "-", "E", "n", "c", "o", "d", "i", "n", "g">>
GzipName == <<"g", "z", "i", "p">>
BrName == <<"b", "r">>

BodyReaderGzipOnly(encoding) ==
    IF ToLower(encoding) = GzipName THEN "gzip" ELSE "identity"

\* part_005:134-143: the reader chosen by the switch on the lower-cased
\* Content-Encoding value
BodyReaderFor(encoding) ==
    IF ToLower(encoding) = GzipName THEN "gzip"
    ELSE IF ToLower(encoding) = BrName THEN "br"
    ELSE "identity"

\* part_005:134-150: what doFetchWithBody returns once it has the response
ReadResponseBody(header, wire) ==
    LET kind == BodyReaderFor(HeaderGet(header, ContentEncodingName)) IN
    IF kind = "gzip"
      THEN IF wire = <<>> \/ Head(wire) # "GZ"
             THEN [hasResp |-> TRUE, hasBody |-> FALSE, body |-> <<>>,
                   err |-> "gzip decode failed"]
           ELSE LET r == GunzipMember(Tail(wire), <<>>) IN
                IF r.err # "nil"
                  THEN [hasResp |-> TRUE, hasBody |-> FALSE, body |-> <<>>,
                        err |-> "read body failed"]
                ELSE [hasResp |-> TRUE, hasBody |-> TRUE, body |-> r.data, err |-> "nil"]
    ELSE IF kind = "br"
      THEN LET r == Unbrotli(wire, <<>>) IN
           IF r.err # "nil"
             THEN [hasResp |-> TRUE, hasBody |-> FALSE, body |-> <<>>,
                   err |-> "read body failed"]
           ELSE [hasResp |-> TRUE, hasBody |-> TRUE, body |-> r.data, err |-> "nil"]
    ELSE [hasResp |-> TRUE, hasBody |-> TRUE, body |-> wire, err |-> "nil"]

\* the Content-Encoding values a server may send; the empty one stands for a
\* response without the header
EncodingValues ==
    { <<>>, <<"g", "z", "i", "p">>, <<"G", "Z", "I", "P">>, <<"G", "z", "i", "p">>, <<"b", "r">>, <<"B", "r">>, <<"d", "e", "f", "l", "a", "t", "e">>, <<"z", "s", "t", "d">>, <<"i", "d", "e", "n", "t", "i", "t", "y">>, <<"x", "-", "g", "z", "i", "p">>, <<"g", "z", "i", "p", ",", " ", "b", "r">> }

\* the header names the value may come under
EncodingHeaderNames == { ContentEncodingName, <<"c", "o", "n", "t", "e", "n", "t", "-", "e", "n", "c", "o", "d", "i", "n", "g">> }

\* what may be on the wire: a body as it is, its gzip or brotli stream, and
\* streams cut short or without their first token
WireBodies ==
    UNION { { p, GzipOf(p), BrotliOf(p),
              SubSeq(GzipOf(p), 1, Len(p) + 1), SubSeq(BrotliOf(p), 1, Len(p)),
              Tail(GzipOf(p)), GzipOf(p) \o GzipOf(p) } : p \in PlainsUpTo(MaxPlain) }

DecodeCallOf(name, value, wire) ==
    [ fn |-> "doFetchWithBody",
      in |-> [ header |-> IF value = <<>> THEN <<>>
                          ELSE << [name |-> name, value |-> value] >>,
               wire |-> wire ],
      out |-> [hasResp |-> FALSE, hasBody |-> FALSE, body |-> <<>>, err |-> "pending"],
      pc |-> "sent" ]

InitDecode ==
    InitCall({ DecodeCallOf(n, v, w) :
                 n \in EncodingHeaderNames, v \in EncodingValues, w \in WireBodies })

\* part_005:128-131: the round trip fails and nothing is returned but the error
DecodeTransportError ==
    /\ call.fn = "doFetchWithBody"
    /\ call.pc = "sent"
    /\ call' = [call EXCEPT !.pc = "returned",
                            !.out = [hasResp |-> FALSE, hasBody |-> FALSE,
                                     body |-> <<>>, err |-> "transport error"]]
    /\ SolveFrame

\* part_005:128-150: the response arrives and its body is read
DecodeResponse ==
    /\ call.fn = "doFetchWithBody"
    /\ call.pc = "sent"
    /\ call' = [call EXCEPT !.pc = "returned",
                            !.out = ReadResponseBody(ReadHeader(call.in.header),
                                                     call.in.wire)]
    /\ SolveFrame

NextDecode ==
    \/ DecodeTransportError
    \/ DecodeResponse

SpecDecode == InitDecode /\ [][NextDecode]_vars

\* ------------------------------------------------------------------ claims

\* C1: the results array has one slot per input URL; slot i holds the outcome
\* of the fetch started for urls[i], whatever the completion order; each slot
\* is written at most once and only by task i; the coordinator reads the
\* array only when every task has finished.
C1_SlotsInInputOrder ==
    /\ Len(results) = Len(urls)
    /\ \A i \in Tasks :
         /\ slotWrites[i] \in {<<>>, <<i>>}
         /\ slotWrites[i] = <<>> => results[i] = ZeroResult /\ tpc[i] \notin {"written", "done"}
         /\ slotWrites[i] = <<i>> =>
              /\ tpc[i] \in {"written", "done"}
              /\ results[i].URL \in {urls[i], NormalizeURL(urls[i])}
              /\ results[i] = IF outcome[i].err # "nil"
                                THEN [URL |-> urls[i], StatusCode |-> 0,
                                      Error |-> outcome[i].err]
                                ELSE outcome[i].res
    /\ mainpc \in {"format", "returned"} =>
         \A i \in Tasks : tpc[i] = "done" /\ slotWrites[i] = <<i>>
    /\ \A k \in DOMAIN readAt : \A i \in Tasks : readAt[k][i] = "done"

C1_Witness ==
    /\ mainpc = "returned"
    /\ readAt # <<>>
    /\ Len(urls) >= 3
    /\ outOfOrder
    /\ \A i \in Tasks : slotWrites[i] = <<i>>
    /\ \E i, j \in Tasks : results[i].URL # results[j].URL

\* C2: the number of tasks that hold a semaphore slot, which are the tasks
\* executing fetchOne, never exceeds maxParallel, a value of zero or less
\* counting as 5, also when there are more URLs than that.
C2_AtMostMaxParallel ==
    LET cap  == IF flagMaxParallel <= 0 THEN 5 ELSE flagMaxParallel
        held == { i \in Tasks : tpc[i] \in {"run", "written"} }
    IN  /\ Cardinality(held) <= cap
        /\ sem = Cardinality(held)

C2_Witness ==
    /\ flagMaxParallel <= 0
    /\ Len(urls) > 5
    /\ Cardinality({ i \in Tasks : tpc[i] \in {"run", "written"} }) = 5
    /\ \E i \in Tasks : tpc[i] = "acquire"

\* C3: a target whose fetch fails gets the slot {URL, Error} and no other
\* slot is touched by it: every other slot holds its own task's outcome,
\* none is left empty, and runParallelFetch returns no error, also when
\* every target failed.
C3_FailureStaysInItsSlot ==
    /\ retval \in {"none", "nil"}
    /\ \A i \in Tasks : slotWrites[i] # <<>> =>
         /\ outcome[i].err # "nil" =>
              results[i] = [URL |-> urls[i], StatusCode |-> 0, Error |-> outcome[i].err]
         /\ outcome[i].err = "nil" =>
              results[i] = outcome[i].res /\ results[i].Error = "nil"
    /\ mainpc = "returned" =>
         /\ retval = "nil"
         /\ \A i \in Tasks : results[i] # ZeroResult /\ results[i].URL # NoUrl

C3_Witness ==
    /\ mainpc = "returned"
    /\ retval = "nil"
    /\ \E i, j \in Tasks : results[i].Error # "nil" /\ results[j].Error = "nil"
                           /\ results[j].StatusCode = 200

\* C4 amended: one fetchOne call invokes the request executor at most twice,
\* the second time only after the JavaScript solver or the captcha solver
\* delivered for the class the detector reported; a failed request is never
\* retried; the detector runs at most once, and exactly once when the first
\* request brought a response, on that response only, so a retry's response
\* is never classified and a JavaScript retry never reaches the captcha
\* branch.
C4_Kinds(log) == [k \in DOMAIN log |-> log[k][1]]

C4_AtMostOneRetry ==
    \A i \in Tasks :
        LET log == fs[i].log
            ks  == C4_Kinds(log)
        IN  /\ ks \in { <<>>, <<"fetch-failed">>, <<"fetch">>, <<"fetch", "detect">>,
                        <<"fetch", "detect", "unsolved">>,
                        <<"fetch", "detect", "solved">>,
                        <<"fetch", "detect", "solved", "fetch">>,
                        <<"fetch", "detect", "solved", "fetch-failed">> }
            /\ Len(log) >= 3 => log[2][2] \in {"js", "captcha"}
            /\ Len(log) >= 3 /\ log[3][1] = "solved" => log[3][2] = log[2][2]
            /\ fs[i].pc = "return" /\ Len(log) >= 1 /\ log[1][1] = "fetch" =>
                 Len(log) >= 2

\* C4 as stated, its detector clause: every execution of fetchOne that has
\* come to its return has invoked the detector exactly once.
C4_DetectorExactlyOnce ==
    \A i \in Tasks : fs[i].pc = "return" =>
        Cardinality({ k \in DOMAIN fs[i].log : fs[i].log[k][1] = "detect" }) = 1

C4_Witness ==
    \E i \in Tasks :
        /\ fs[i].pc = "return"
        /\ fs[i].err = "nil"
        /\ C4_Kinds(fs[i].log) = <<"fetch", "detect", "solved", "fetch">>
        /\ fs[i].log[3][2] = "js"
        /\ detectChallenge(fs[i].resp) = "captcha"

\* C5 as stated: when several tasks persist to the same cookie file, then
\* after all of them finished the file holds, for every (name, origin key)
\* pair any task wrote, the value of the last task to commit it; no pair is
\* missing.
C5_NoLostCookie ==
    mainpc = "returned" =>
        \A p \in DOMAIN committed :
            /\ file.kind = "json"
            /\ \E k \in DOMAIN file.data :
                 /\ file.data[k].Name = p[1]
                 /\ file.data[k].URL = p[2]
                 /\ file.data[k].Value = committed[p]

\* C6 as stated: a Load that runs while another task saves sees the complete
\* old or the complete new contents of the file, never an empty or partial
\* one, and never fails to decode.
C6_LoadNeverSeesTornFile ==
    \A i \in Tasks : fs[i].loadSaw # "empty" /\ fs[i].err # LoadFailed

\* C7 as stated: every public operation of the store (set, get, save, load)
\* holds the store's lock from entry to return.
C7_EveryOperationLocked ==
    \A i \in Tasks : fs[i].pc \in {"loading", "incookies", "saving"} => mu[i]

C8_SentTo(c, u) ==
    /\ u.scheme \in {"http", "https"}
    /\ c.Domain = "" \/ c.Domain = u.host \/ <<u.host, c.Domain>> \in SubdomainPairs
    /\ c.Path \in {"", "/"}
    /\ c.Secure => u.scheme = "https"

C9_Before(x, t) == x.Expires # 0 /\ x.Expires < t

C9_SaveClean ==
    /\ file'.kind = "json"
    /\ \A i \in DOMAIN file'.data : ~C9_Before(file'.data[i], now)
    /\ \A i \in DOMAIN stores[1].tracked :
         stores[1].tracked[i].Expires = 0
            => \E j \in DOMAIN file'.data : file'.data[j] = stores[1].tracked[i]

C9_LoadClean(old, new) ==
    LET ins == SubSeq(new.tracked, Len(old.tracked) + 1, Len(new.tracked)) IN
    /\ SubSeq(new.tracked, 1, Len(old.tracked)) = old.tracked
    /\ \A i \in DOMAIN ins : ~C9_Before(ins[i], now)
    /\ \A e \in new.entries \ old.entries : ~(e.Persistent /\ e.Expires < now)
    /\ \A i \in DOMAIN file.data :
         file.data[i].Expires = 0 => \E j \in DOMAIN ins : ins[j] = file.data[i]

C10_MissingFileIsEmptyJar ==
    \A i \in Tasks : fs[i].loadSaw = "missing" =>
        /\ fs[i].err # LoadFailed
        /\ fs[i].pc \in {"cookies", "incookies"} =>
             /\ stores[i] = EmptyStore
             /\ \A k \in DOMAIN RawUrls :
                  JarCookies(stores[i].entries, NormalizeURL(RawUrls[k]), now) = {}
        /\ fs[i].pc = "fetch1" => fs[i].cookies = {}
        /\ Len(fs[i].log) >= 1 => fs[i].log[1][2] = {}

C10_Witness ==
    \E i \in Tasks :
        /\ fs[i].loadSaw = "missing"
        /\ fs[i].pc = "return"
        /\ fs[i].err = "nil"
        /\ Len(fs[i].log) >= 1
        /\ fs[i].log[1] = <<"fetch", {}>>

\* C11: after any sequence of set calls the tracking record holds at most one
\* tuple per (name, origin key); a set removes the tuple of each pair it
\* names and appends the new one at the end, so the tuples of the pairs the
\* call names come last, in the order of their last occurrence in the call,
\* and the tuples of all other pairs keep their relative order.
C11_Pair(sc) == <<sc.Name, sc.URL>>

C11_NoDup(tracked) ==
    \A k, m \in DOMAIN tracked : C11_Pair(tracked[k]) = C11_Pair(tracked[m]) => k = m

C11_OneTuplePerPair ==
    /\ C11_NoDup(stores[1].tracked)
    /\ rt.phase = "tracked" =>
         LET old    == rt.before
             new    == stores[1].tracked
             cs     == rt.c
             key    == MkUrl(rt.u.scheme, rt.u.host)
             named  == { <<cs[k].Name, key>> : k \in DOMAIN cs }
             others(t) == SelectSeq(t, LAMBDA sc : C11_Pair(sc) \notin named)
             lastOf(p) == CHOOSE k \in DOMAIN cs :
                             /\ cs[k].Name = p[1]
                             /\ \A m \in DOMAIN cs : cs[m].Name = p[1] => m <= k
             nOld   == Len(others(old))
         IN  /\ others(new) = others(old)
             /\ Len(new) = nOld + Cardinality(named)
             /\ \A k \in 1..nOld : new[k] = others(old)[k]
             /\ \A k \in (nOld + 1)..Len(new) :
                  /\ C11_Pair(new[k]) \in named
                  /\ new[k].Value = cs[lastOf(C11_Pair(new[k]))].Value
                  /\ \A m \in (nOld + 1)..Len(new) :
                       k < m => lastOf(C11_Pair(new[k])) < lastOf(C11_Pair(new[m]))
             /\ new[Len(new)].Name = cs[Len(cs)].Name
             /\ new[Len(new)].Value = cs[Len(cs)].Value

C11_Witness ==
    /\ rt.phase = "tracked"
    /\ Len(rt.before) = 3
    /\ Len(rt.c) = 1
    /\ C11_Pair(rt.before[1]) = <<rt.c[1].Name, MkUrl(rt.u.scheme, rt.u.host)>>
    /\ rt.before[1].Value # rt.c[1].Value
    /\ stores[1].tracked = Tail(rt.before) \o <<[rt.before[1] EXCEPT !.Value = rt.c[1].Value]>>

\* C12: detectChallenge is total and deterministic: every response gets
\* exactly one of None, JS, Captcha, and the class does not change when
\* letters of the Server header's name or of its value change case.
C12_SameButCase(x, y) ==
    /\ x.status = y.status
    /\ x.body = y.body
    /\ Len(x.wire) = Len(y.wire)
    /\ \A k \in DOMAIN x.wire :
         /\ Len(x.wire[k].name) = Len(y.wire[k].name)
         /\ Len(x.wire[k].value) = Len(y.wire[k].value)
         /\ \A m \in DOMAIN x.wire[k].name :
              ToLowerChar(x.wire[k].name[m]) = ToLowerChar(y.wire[k].name[m])
         /\ \A m \in DOMAIN x.wire[k].value :
              ToLowerChar(x.wire[k].value[m]) = ToLowerChar(y.wire[k].value[m])

C12_TotalAndCaseBlind ==
    call.fn = "detectChallenge" /\ call.out # "pending" =>
        /\ call.out \in {"none", "js", "captcha"}
        /\ \A y \in DetectInputs :
             C12_SameButCase(call.in, y) => DetectResponse(y) = call.out

C12_Witness ==
    /\ call.fn = "detectChallenge"
    /\ call.out = "js"
    /\ call.in.status = 403
    /\ call.in.wire # <<>>
    /\ call.in.wire[1].name = <<"S", "E", "R", "V", "E", "R">>
    /\ call.in.wire[1].value = <<"C", "L", "O", "U", "D", "F", "L", "A", "R", "E">>
    /\ \E y \in DetectInputs :
         /\ y # call.in
         /\ y.wire # <<>>
         /\ y.wire[1].name = <<"s", "e", "r", "v", "e", "r">>
         /\ y.wire[1].value = CloudflareText
         /\ C12_SameButCase(call.in, y)

\* C13: whatever the status and the headers, a body that contains at least
\* one captcha marker is classified Captcha, also when it contains
\* JS-interstitial markers and the response is a Cloudflare 403 or 503.
C13_CaptchaFirst ==
    (/\ call.fn = "detectChallenge"
     /\ call.out # "pending"
     /\ \E mk \in { "turnstile", "challenges.cloudflare.com", "h-captcha",
                    "data-sitekey", "g-recaptcha", "www.google.com/recaptcha" } :
            mk \in call.in.body.has)
        => call.out = "captcha"

C13_Witness ==
    /\ call.fn = "detectChallenge"
    /\ call.out = "captcha"
    /\ call.in.status = 503
    /\ call.in.wire = <<[name |-> ServerName, value |-> CloudflareText]>>
    /\ call.in.body = [has |-> {"turnstile", "Just a moment"}, len |-> 9999]

\* C14: for a body without captcha marker, the class is JS exactly when the
\* lower-cased Server header contains "cloudflare", the status is 403 or 503
\* and the body holds a Cloudflare interstitial marker, or when the status is
\* 503, the body holds "<noscript>" or "document.cookie" and is shorter than
\* 10000 bytes; otherwise the class is None.
C14_ServerIsCloudflare(wire) ==
    \E k \in DOMAIN wire :
        /\ ToLower(wire[k].name) = <<"s", "e", "r", "v", "e", "r">>
        /\ \A m \in 1..(k - 1) : ToLower(wire[m].name) # <<"s", "e", "r", "v", "e", "r">>
        /\ Contains(ToLower(wire[k].value), CloudflareText)

C14_JsRule(in) ==
    \/ /\ C14_ServerIsCloudflare(in.wire)
       /\ in.status \in {403, 503}
       /\ in.body.has \cap { "Just a moment", "_cf_chl", "cf-challenge", "jschl_vc",
                             "jschl_answer" } # {}
    \/ /\ in.status = 503
       /\ in.body.has \cap { "<noscript>", "document.cookie" } # {}
       /\ in.body.len < 10000

C14_JsExactly ==
    (/\ call.fn = "detectChallenge"
     /\ call.out # "pending"
     /\ call.in.body.has \cap CaptchaMarkers = {})
        => call.out = (IF C14_JsRule(call.in) THEN "js" ELSE "none")

C14_Witness ==
    /\ call.fn = "detectChallenge"
    /\ call.out = "js"
    /\ call.in.status = 503
    /\ call.in.wire = <<[name |-> ServerName, value |-> <<"n", "g", "i", "n", "x">>]>>
    /\ call.in.body = [has |-> {"<noscript>"}, len |-> 9999]

\* C15: Solve on a script that never ends by itself returns in the end: the
\* watchdog interrupts the VM and Solve returns a timeout error and no
\* result.
C15_LoopTimesOut ==
    (call.fn = "Solve" /\ call.in \in LoopScripts /\ call.pc = "start")
        ~> (call.pc = "returned"
            /\ call.out.err = "JS execution timed out"
            /\ ~call.out.hasResult)

C15_Witness ==
    /\ call.fn = "Solve"
    /\ call.in = <<Stmt("loop", <<>>)>>
    /\ call.pc = "returned"
    /\ call.elapsed = 10
    /\ call.interrupt
    /\ call.out.err = "JS execution timed out"
    /\ ~call.out.hasResult

\* C16 as stated: after a script evaluates document.cookie = "k=v; <attributes>",
\* the solve result is (k, v), for every name k and value v, where k is the
\* text before the first '=' and v the text between it and the first ';'.
C16_FirstAt(text, ch) ==
    CHOOSE i \in DOMAIN text : text[i] = ch /\ \A j \in 1..(i - 1) : text[j] # ch

C16_IsAssignment(text) ==
    /\ \E i \in DOMAIN text : text[i] = "="
    /\ \E j \in DOMAIN text : text[j] = ";"
    /\ C16_FirstAt(text, "=") < C16_FirstAt(text, ";")

C16_Name(text) == SubSeq(text, 1, C16_FirstAt(text, "=") - 1)
C16_Value(text) == SubSeq(text, C16_FirstAt(text, "=") + 1, C16_FirstAt(text, ";") - 1)

C16_Solved ==
    /\ call.fn = "Solve"
    /\ call.pc = "returned"
    /\ call.out.hasResult
    /\ Len(call.in) = 1
    /\ call.in[1].op = "assign"
    /\ C16_IsAssignment(call.in[1].text)

C16_CookieVerbatim ==
    C16_Solved =>
        /\ call.out.res.CookieName = C16_Name(call.in[1].text)
        /\ call.out.res.CookieValue = C16_Value(call.in[1].text)

\* C16 amended: the result is (k, v) with the white space in front of k and
\* the white space behind v taken off; it is (k, v) itself when k does not
\* begin and v does not end with white space.
RECURSIVE C16_TrimLeft(_)
C16_TrimLeft(str) ==
    IF str # <<>> /\ Head(str) = " " THEN C16_TrimLeft(Tail(str)) ELSE str

RECURSIVE C16_TrimRight(_)
C16_TrimRight(str) ==
    IF str # <<>> /\ str[Len(str)] = " "
    THEN C16_TrimRight(SubSeq(str, 1, Len(str) - 1)) ELSE str

C16_CookieTrimmed ==
    C16_Solved =>
        LET k == C16_Name(call.in[1].text)
            v == C16_Value(call.in[1].text)
        IN  /\ call.out.res.CookieName = C16_TrimLeft(k)
            /\ call.out.res.CookieValue = C16_TrimRight(v)

C16_Witness ==
    /\ C16_Solved
    /\ call.in[1].text = <<"k", "=", "k", " ", ";">>
    /\ call.out.res = [CookieName |-> <<"k">>, CookieValue |-> <<"k">>]

\* ---------------------------------------------------------------------
\* C17: non-fatal errors never become return errors of fetchOne. When the
\* first response is classified JS and the solver gives nothing usable (no
\* inline script, a script error, a timeout, an empty cookie name), fetchOne
\* has sent one request only and returns the first response with no error;
\* when saving the cookie store fails, it still returns the fetch result
\* with no error.
C17_Fetches(i) == { k \in DOMAIN fs[i].log : fs[i].log[k][1] = "fetch" }

C17_JsGaveNothing(i) ==
    /\ fs[i].challenge = "js"
    /\ \E k \in DOMAIN fs[i].log :
          fs[i].log[k] \in { <<"unsolved", why>> :
                               why \in {"no-script", "script-error", "timeout", "no-cookie"} }

C17_ReturnsFirst(i) ==
    /\ fs[i].resp = fs[i].first
    /\ FetchOneReturns(i) =
          [res |-> OkResult(TargetURL(i), fs[i].first.status), err |-> "nil"]

C17_NonFatalStaysNonFatal ==
    \A i \in Tasks :
        Running(i, "return") =>
            /\ C17_JsGaveNothing(i) =>
                  (Cardinality(C17_Fetches(i)) = 1 /\ C17_ReturnsFirst(i))
            /\ fs[i].save = "failed" =>
                  FetchOneReturns(i) =
                    [res |-> OkResult(TargetURL(i), fs[i].resp.status), err |-> "nil"]

C17_Witness ==
    \E i \in Tasks :
        /\ Running(i, "return")
        /\ C17_JsGaveNothing(i)
        /\ <<"unsolved", "timeout">> \in { fs[i].log[k] : k \in DOMAIN fs[i].log }
        /\ fs[i].save = "failed"
        /\ FetchOneReturns(i).err = "nil"

\* ---------------------------------------------------------------------
\* C18: the captcha branch. With no sitekey, or with the captcha service or
\* key unset, no adapter is built, the captcha service is not asked, no
\* retry is sent and fetchOne returns the first response with no error. With
\* both set and a service name no adapter exists for, fetchOne returns an
\* error. When the adapter's solve fails, fetchOne returns an error and has
\* sent no retry.
C18_Requests(i) ==
    { k \in DOMAIN fs[i].log : fs[i].log[k][1] \in {"fetch", "fetch-failed"} }

C18_NotConfigured(i) ==
    \/ ~fs[i].cap.sitekey
    \/ fs[i].cap.svc = ""
    \/ fs[i].cap.key = ""

C18_SolveFailed(i) ==
    \E k \in DOMAIN fs[i].log : fs[i].log[k] = <<"unsolved", "captcha solve failed">>

C18_CaptchaBranch ==
    \A i \in Tasks :
        (Running(i, "return") /\ fs[i].challenge = "captcha") =>
            /\ C18_NotConfigured(i) =>
                  /\ ~fs[i].cap.adapter
                  /\ ~fs[i].cap.asked
                  /\ Cardinality(C18_Requests(i)) = 1
                  /\ fs[i].resp = fs[i].first
                  /\ FetchOneReturns(i) =
                        [res |-> OkResult(TargetURL(i), fs[i].first.status), err |-> "nil"]
            /\ (/\ ~C18_NotConfigured(i)
                /\ fs[i].cap.svc \notin {"2captcha", "anticaptcha"}) =>
                  /\ FetchOneReturns(i).err = "captcha solver init failed"
                  /\ FetchOneReturns(i).res = ZeroResult
            /\ C18_SolveFailed(i) =>
                  /\ FetchOneReturns(i).err = "captcha solve failed"
                  /\ FetchOneReturns(i).res = ZeroResult
                  /\ Cardinality(C18_Requests(i)) = 1

C18_Witness ==
    \E i \in Tasks :
        /\ Running(i, "return")
        /\ fs[i].challenge = "captcha"
        /\ fs[i].cap.sitekey
        /\ fs[i].cap.svc = "2captcha"
        /\ fs[i].cap.key = ""
        /\ FetchOneReturns(i).err = "nil"
        /\ fs[i].resp = fs[i].first

\* ---------------------------------------------------------------------
\* C19: with cookies enabled, when Load fails on a file that exists (it
\* cannot be read, or its bytes are not a JSON list), fetchOne returns an
\* error and no result, having sent no request and saved nothing.
C19_BadFiles == {"unreadable", "empty", "malformed"}

C19_LoadFailureIsFatal ==
    \A i \in Tasks :
        (tpc[i] = "run" /\ fs[i].loadSaw \in C19_BadFiles) =>
            /\ ~flagNoCookies
            /\ fs[i].pc = "return"
            /\ FetchOneReturns(i) = [res |-> ZeroResult, err |-> LoadFailed]
            /\ fs[i].log = <<>>
            /\ fs[i].save = "none"
            /\ file.kind = fs[i].loadSaw
            /\ committed = <<>>

C19_Witness ==
    \E i \in Tasks :
        /\ Running(i, "return")
        /\ fs[i].loadSaw = "malformed"
        /\ FetchOneReturns(i) = [res |-> ZeroResult, err |-> LoadFailed]
        /\ fs[i].log = <<>>

\* ---------------------------------------------------------------------
\* C20: a timeout string that is not a duration makes fetchOne return an
\* error before anything else happens: the cookie store is neither loaded
\* nor saved and no request is sent. An empty timeout string is no error
\* and stands for 30 seconds.
C20_Untouched(i) ==
    /\ fs[i].loadSaw = "none"
    /\ fs[i].save = "none"
    /\ fs[i].log = <<>>
    /\ stores[i] = EmptyStore
    /\ ~mu[i]
    /\ committed = <<>>

C20_TimeoutChecked ==
    \A i \in Tasks :
        (tpc[i] = "run" /\ fs[i].pc # "start") =>
            /\ flagTimeout \in {"soon", "30"} =>
                  /\ fs[i].pc = "return"
                  /\ FetchOneReturns(i) = [res |-> ZeroResult, err |-> "invalid timeout"]
                  /\ C20_Untouched(i)
            /\ flagTimeout = "" =>
                  /\ fs[i].err # "invalid timeout"
                  /\ fs[i].dur = 30

C20_Witness ==
    \E i \in Tasks :
        /\ Running(i, "return")
        /\ flagTimeout = "soon"
        /\ ~flagNoCookies
        /\ file.kind = "json"
        /\ FetchOneReturns(i) = [res |-> ZeroResult, err |-> "invalid timeout"]
        /\ C20_Untouched(i)

C22_UrlIsInputString ==
    mainpc = "returned" =>
        \A i \in DOMAIN urls : results[i].URL = urls[i]

\* ---------------------------------------------------------------------
\* C23: when the per-fetch deadline expires while fetchOne waits in network
\* I/O (TCP dial, TLS handshake, response read) or in a captcha submit, poll
\* wait or poll request, fetchOne returns an error in the end.
C23_WaitingSteps == {"dial", "handshake", "read", "csubmit", "cwait", "cpoll"}

C23_ExpiryEndsEveryWait ==
    (call.fn = "fetchOne" /\ call.expired /\ call.pc \in C23_WaitingSteps)
        ~> (call.pc = "returned" /\ call.out.err # "nil")

\* C23, the part about the JS solve: the deadline does not end a solve, and a
\* retry started once the deadline has passed fails.
C23_SolveOutlivesDeadline ==
    [][ (call.fn = "fetchOne" /\ call.pc = "solve" /\ call.expired) =>
            \/ call'.pc = "solve"
            \/ (call'.pc = "returned" /\ call'.out.err = "nil"
                  /\ call.in.loops /\ call.elapsed >= WatchdogSeconds)
            \/ (call'.pc = "returned" /\ call'.out.err # "nil"
                  /\ ~call.in.loops /\ call'.attempt = 2) ]_vars

\* ---------------------------------------------------------------------
\* C24 as stated: every execution of fetchOne with cookies enabled that has
\* come to its return has loaded the store once and saved it exactly once.
C24_Count(i, what) ==
    Cardinality({ k \in DOMAIN fs[i].trace : fs[i].trace[k] = what })

C24_LoadedAndSavedOnce ==
    \A i \in Tasks :
        (Running(i, "return") /\ ~flagNoCookies) =>
            /\ C24_Count(i, "load") = 1
            /\ C24_Count(i, "save") = 1

\* C24: with cookies enabled, fetchOne loads the store at most once, before
\* any request, and exactly once when the timeout is a duration; it saves at
\* most once, and exactly once when it returns a result; the save comes
\* after every origin request and after the final response's cookies have
\* been put in the store under the request URL, so a save that succeeds
\* writes them to the file; a call that returns an error has saved nothing.
C24_SaveLast(i) ==
    \A k \in DOMAIN fs[i].trace :
        fs[i].trace[k] = "save" => k = Len(fs[i].trace)

C24_LoadFirst(i) ==
    \A k \in DOMAIN fs[i].trace :
        fs[i].trace[k] = "load" => k = 1

C24_FinalCookiesWritten(i) ==
    LET cs == RespCookies(i, fs[i].resp) IN
    \A k \in DOMAIN cs :
        /\ "ingest" \in { fs[i].trace[m] : m \in DOMAIN fs[i].trace }
        /\ fs[i].save = "ok" =>
             \E m \in DOMAIN file.data :
                 file.data[m] = Saved(cs[k], UrlKey(TargetURL(i)))

C24_LoadOnceSaveOnce ==
    \A i \in Tasks :
        (Running(i, "return") /\ ~flagNoCookies) =>
            /\ C24_Count(i, "load") <= 1
            /\ C24_Count(i, "save") <= 1
            /\ C24_LoadFirst(i)
            /\ C24_SaveLast(i)
            /\ ParsesAsDuration(TimeoutOrDefault(flagTimeout)) =>
                 C24_Count(i, "load") = 1
            /\ C24_Count(i, "request") >= 1 => C24_Count(i, "load") = 1
            /\ IF FetchOneReturns(i).err = "nil"
                 THEN /\ C24_Count(i, "save") = 1
                      /\ fs[i].save \in {"ok", "failed"}
                      /\ C24_FinalCookiesWritten(i)
                 ELSE /\ C24_Count(i, "save") = 0
                      /\ fs[i].save = "none"

C24_Witness ==
    \E i \in Tasks :
        /\ Running(i, "return")
        /\ ~flagNoCookies
        /\ fs[i].trace = <<"load", "request", "request", "ingest", "save">>
        /\ fs[i].save = "ok"
        /\ FetchOneReturns(i).err = "nil"

\* ---------------------------------------------------------------------
\* C25: a chain of up to and including 10 redirect hops is followed to its
\* end and the final response is returned; a chain of more than 10 hops
\* fails with a redirect error and returns no response body.
C25_TenHopsFollowed ==
    (call.fn = "doFetch" /\ call.pc = "returned") =>
        IF call.in.hops <= 10
          THEN /\ call.out.err = "nil"
               /\ call.out.hasBody
               /\ call.out.from = call.in.hops + 1
          ELSE /\ call.out.err = "too many redirects"
               /\ ~call.out.hasBody

\* ---------------------------------------------------------------------
\* C26 as stated, its not-ready clause: in the two-captcha protocol a poll
\* answer with request = "CAPCHA_NOT_READY" and status other than 1 leads to
\* another poll, so the solve never ends on such an answer.
C26_Is2Captcha == call.fn = "CaptchaSolve" /\ call.in = "2captcha"

C26_NotReady(r) == r.ok /\ r.status # 1 /\ r.request = "CAPCHA_NOT_READY"

C26_NotReadyPollsAgain ==
    (C26_Is2Captcha /\ call.lastFor = "poll" /\ C26_NotReady(call.last)) =>
        call.pc \in {"wait", "poll"}

\* C26: in the two-captcha protocol no poll is issued unless the submit
\* answer has status = 1 (otherwise the solve fails with the answer's request
\* value and sends nothing more). A poll answer with status = 1 ends the
\* solve with the request value as the token; one with request =
\* "CAPCHA_NOT_READY" and status other than 1 leads to another wait and poll,
\* unless it answered the 60th poll (the solve then fails as timed out) or
\* the context is done at the wait; any other request value ends the solve
\* with that value as the error. Nothing is sent after the solve has ended.
C26_TwoCaptchaProtocol ==
    C26_Is2Captcha =>
        /\ (call.polls >= 1 \/ call.pc \in {"wait", "poll"}) =>
              (call.submitted.ok /\ call.submitted.status = 1)
        /\ (call.lastFor = "submit" /\ call.last.ok /\ call.last.status # 1) =>
              /\ call.pc = "returned"
              /\ call.out = [err |-> call.last.request, token |-> ""]
              /\ call.polls = 0
        /\ (call.lastFor = "poll" /\ call.last.ok /\ call.last.status = 1) =>
              /\ call.pc = "returned"
              /\ call.out = [err |-> "nil", token |-> call.last.request]
        /\ (call.lastFor = "poll" /\ C26_NotReady(call.last)) =>
              \/ call.pc \in {"wait", "poll"}
              \/ /\ call.pc = "returned"
                 /\ \/ call.polls = MaxPolls /\ call.out.err = "timed out"
                    \/ call.ctxDone /\ call.out.err = "context done"
        /\ (/\ call.lastFor = "poll"
            /\ call.last.ok
            /\ call.last.status # 1
            /\ call.last.request # "CAPCHA_NOT_READY") =>
              /\ call.pc = "returned"
              /\ call.out = [err |-> call.last.request, token |-> ""]
        /\ call.pc = "returned" => ~ENABLED NextCaptcha

C26_Witness ==
    /\ C26_Is2Captcha
    /\ call.pc = "returned"
    /\ call.polls = 3
    /\ call.lastFor = "poll"
    /\ call.last.status = 1
    /\ call.out = [err |-> "nil", token |-> "TOKEN"]

\* ---------------------------------------------------------------------
\* C27 as stated, its processing clause: in the anti-captcha protocol a
\* getTaskResult answer with status = "processing" (and errorId = 0) leads to
\* another poll, so the solve never ends on such an answer.
C27_IsAntiCaptcha == call.fn = "CaptchaSolve" /\ call.in = "anticaptcha"

C27_Processing(r) == r.ok /\ r.errorId = 0 /\ r.astatus = "processing"

C27_ProcessingPollsAgain ==
    (C27_IsAntiCaptcha /\ call.lastFor = "poll" /\ C27_Processing(call.last)) =>
        call.pc \in {"wait", "poll"}

\* C27: in the anti-captcha protocol no poll is issued unless the createTask
\* answer has errorId = 0. A getTaskResult answer with errorId other than 0
\* ends the solve with an error, also when its status is "ready"; one with
\* status = "ready" and errorId = 0 ends the solve with solution.token or,
\* when that is empty, solution.gRecaptchaResponse; one with status =
\* "processing" leads to another wait and poll, unless it answered the 60th
\* poll (the solve then fails as timed out) or the context is done at the
\* wait. Nothing is sent after the solve has ended.
C27_AntiCaptchaProtocol ==
    C27_IsAntiCaptcha =>
        /\ (call.polls >= 1 \/ call.pc \in {"wait", "poll"}) =>
              (call.submitted.ok /\ call.submitted.errorId = 0)
        /\ (call.lastFor = "submit" /\ call.last.ok /\ call.last.errorId # 0) =>
              /\ call.pc = "returned"
              /\ call.out.err \notin {"nil", "pending"}
              /\ call.polls = 0
        /\ (call.lastFor = "poll" /\ call.last.ok /\ call.last.errorId # 0) =>
              /\ call.pc = "returned"
              /\ call.out = [err |-> "anticaptcha: solve failed", token |-> ""]
        /\ (/\ call.lastFor = "poll"
            /\ call.last.ok
            /\ call.last.errorId = 0
            /\ call.last.astatus = "ready") =>
              /\ call.pc = "returned"
              /\ call.out.err = "nil"
              /\ call.out.token = IF call.last.token # "" THEN call.last.token
                                  ELSE call.last.gresp
        /\ (call.lastFor = "poll" /\ C27_Processing(call.last)) =>
              \/ call.pc \in {"wait", "poll"}
              \/ /\ call.pc = "returned"
                 /\ \/ call.polls = MaxPolls /\ call.out.err = "timed out"
                    \/ call.ctxDone /\ call.out.err = "context done"
        /\ call.pc = "returned" => ~ENABLED NextCaptcha

C27_Witness ==
    /\ C27_IsAntiCaptcha
    /\ call.pc = "returned"
    /\ call.polls = 2
    /\ call.last.astatus = "ready"
    /\ call.last.errorId = 0
    /\ call.last.token = ""
    /\ call.out = [err |-> "nil", token |-> "gresp"]

\* ---------------------------------------------------------------------
\* C28: for both captcha services and whatever the service answers, one
\* solve hands exactly one submit and at most 60 polls to the HTTP client;
\* every poll, the first included, comes after a wait that the poll timer
\* ended; when the 60th poll is answered not-ready the solve fails as timed
\* out; a wait that ends while the context is done and the interval not yet
\* over ends the solve with the context's error and no further poll; and the
\* solve always returns.
C28_Counts ==
    call.fn = "CaptchaSolve" =>
        /\ call.submits = IF call.pc = "submit" THEN 0 ELSE 1
        /\ call.polls <= 60
        /\ call.waits = IF call.pc = "poll" THEN call.polls + 1 ELSE call.polls
        /\ (/\ call.pc = "returned"
            /\ call.lastFor = "poll"
            /\ call.polls = 60
            /\ PollOutcome(call.in, call.last).kind = "again"
            /\ ~call.ctxDone) =>
              call.out.err = "timed out"
        /\ (call.pc = "wait" /\ call.ctxDone /\ ~call.timer) =>
              (ENABLED WaitEndsByContext /\ ~ENABLED WaitEndsByTimer)

C28_ContextEndsWait ==
    (call.fn = "CaptchaSolve" /\ call.pc = "wait" /\ call'.pc = "returned") =>
        /\ call.ctxDone
        /\ call'.out = [err |-> "context done", token |-> ""]
        /\ call'.polls = call.polls

C29_OnlyTwoServices ==
    call.fn = "newCaptchaSolver" =>
        /\ call.pc # "new" =>
              IF call.in.service \in {"2captcha", "anticaptcha"}
                THEN /\ call.out.ok
                     /\ call.out.err = "nil"
                     /\ call.out.solver.service = call.in.service
                ELSE /\ ~call.out.ok
                     /\ call.out.err = "unsupported captcha service"
                     /\ call.out.solver = NoAdapter
        /\ call.in.service \notin {"2captcha", "anticaptcha"} =>
              call.requests = <<>> /\ call.pc # "used"

C29_Witness ==
    /\ call.fn = "newCaptchaSolver"
    /\ call.pc = "made"
    /\ call.in.service = ""
    /\ call.in.apiKey = "key"
    /\ ~call.out.ok
    /\ call.out.err = "unsupported captcha service"
    /\ ~ENABLED AdapterSolve

\* ---------------------------------------------------------------------
\* C30 as stated: extractSitekey returns the value of the first data-sitekey
\* attribute, double- or single-quoted (the text between the quote that
\* opens it and the next quote of the same kind), and an empty sitekey when
\* the body has no such attribute.
C30_Closes(body, i, j) ==
    /\ j > i + 1
    /\ j <= Len(body)
    /\ body[j] = body[i + 1]
    /\ \A m \in (i + 2)..(j - 1) : body[m] # body[i + 1]

C30_IsAttribute(body, i) ==
    /\ i + 2 <= Len(body)
    /\ body[i] = AttrPrefix
    /\ IsQuote(body[i + 1])
    /\ \E j \in DOMAIN body : C30_Closes(body, i, j)

C30_FirstAttributeValue(body) ==
    IF \E i \in DOMAIN body : C30_IsAttribute(body, i)
      THEN LET i == CHOOSE x \in DOMAIN body :
                      /\ C30_IsAttribute(body, x)
                      /\ \A y \in DOMAIN body : C30_IsAttribute(body, y) => x <= y
               j == CHOOSE x \in DOMAIN body : C30_Closes(body, i, x)
           IN SubSeq(body, i + 2, j - 1)
    ELSE <<>>

C30_ValueOfFirstAttribute ==
    (call.fn = "extractSitekey" /\ call.pc = "returned") =>
        call.out.sitekey = C30_FirstAttributeValue(call.in)

\* C30: extractSitekey returns the text of the leftmost place in the body
\* where data-sitekey= is followed by a quote of either kind, one or more
\* characters that are not quotes, and a quote of either kind: that text is
\* the characters between the two quotes. The kind is the first marker
\* present in the order cf-turnstile or turnstile, h-captcha, g-recaptcha,
\* wherever in the body the markers are, and "unknown" when none is present.
\* A body with no such place yields an empty sitekey and an empty kind.
C30_Place(body, i, j) ==
    /\ body[i] = AttrPrefix
    /\ i + 1 <= Len(body)
    /\ IsQuote(body[i + 1])
    /\ j > i + 2
    /\ j <= Len(body)
    /\ IsQuote(body[j])
    /\ \A m \in (i + 2)..(j - 1) : ~IsQuote(body[m])

C30_Has(body, marker) == \E k \in DOMAIN body : body[k] = marker

C30_Kind(body) ==
    IF C30_Has(body, "cf-turnstile") \/ C30_Has(body, "turnstile") THEN "turnstile"
    ELSE IF C30_Has(body, "h-captcha") THEN "hcaptcha"
    ELSE IF C30_Has(body, "g-recaptcha") THEN "recaptcha"
    ELSE "unknown"

C30_LeftmostQuotedRun ==
    (call.fn = "extractSitekey" /\ call.pc = "returned") =>
        LET body == call.in IN
        IF \E i, j \in DOMAIN body : C30_Place(body, i, j)
          THEN \E i, j \in DOMAIN body :
                 /\ C30_Place(body, i, j)
                 /\ \A x, y \in DOMAIN body : C30_Place(body, x, y) => i <= x
                 /\ call.out.sitekey = SubSeq(body, i + 2, j - 1)
                 /\ call.out.captchaType = C30_Kind(body)
        ELSE call.out = [sitekey |-> <<>>, captchaType |-> ""]

C30_Witness ==
    /\ call.fn = "extractSitekey"
    /\ call.pc = "returned"
    /\ call.in = <<"g-recaptcha", AttrPrefix, "'", "h-captcha", "'">>
    /\ call.out = [sitekey |-> <<"h-captcha">>, captchaType |-> "hcaptcha"]

\* ---------------------------------------------------------------------
\* C31: getProfile returns the firefox profile for the name "firefox" and
\* the chrome profile for every other name, the empty string and unknown
\* names included; the profile a fetch obtained stays what getProfile
\* returned through the transport's construction, the dial and every request
\* of the fetch, and the transport's copy equals it.
C31_Expected(name) == IF name = "firefox" THEN firefoxProfile ELSE chromeProfile

C31_Returned ==
    (call.fn = "getProfile" /\ call.pc # "start") =>
        call.out = C31_Expected(call.in)

C31_Held ==
    (call.fn = "getProfile" /\ call.pc \notin {"start", "got"}) =>
        /\ call.profile = C31_Expected(call.in)
        /\ call.pc # "profile" => call.rt = call.profile
        /\ call.pc \in {"dialed", "returned"} => call.hello = call.profile.TLSHello

C31_Unchanged ==
    (call.fn = "getProfile" /\ call.pc \notin {"start", "got"}) =>
        (call'.profile = call.profile /\ call'.out = call.out)

C31_ProfileFallbackAndFrozen ==
    [](C31_Returned /\ C31_Held) /\ [][C31_Unchanged]_vars

C31_Witness ==
    /\ call.fn = "getProfile"
    /\ call.pc = "returned"
    /\ call.in = "something-unknown"
    /\ call.profile = chromeProfile
    /\ <<"User-Agent", "curl/8.0">> \in call.sent
    /\ call.requests = 2

\* ---------------------------------------------------------------------
\* C32: when every fetchOne call returns, runParallelFetch returns. Every
\* task that waits for a slot gets one; the slots in use are exactly the
\* tasks inside fetchOne or about to run their deferred release, whatever
\* fetchOne returned, so every slot is free again once the tasks are done;
\* and the results are formatted only after every task has finished.
C32_SlotsAreRunningTasks ==
    /\ sem = Cardinality({ i \in Tasks : tpc[i] \in {"run", "written"} })
    /\ sem <= MaxPar
    /\ wg = Cardinality({ i \in Tasks : tpc[i] \in {"acquire", "run", "written"} })

C32_ReturnsAfterAll ==
    mainpc \in {"format", "returned"} =>
        (sem = 0 /\ \A i \in Tasks : tpc[i] = "done")

C32_EveryTaskAdmitted ==
    \A i \in 1..MaxLiveUrls :
        (i \in Tasks /\ tpc[i] = "acquire") ~> (i \in Tasks /\ tpc[i] = "done")

C32_SchedulerTerminates ==
    /\ [](C32_SlotsAreRunningTasks /\ C32_ReturnsAfterAll)
    /\ C32_EveryTaskAdmitted
    /\ <>(mainpc = "returned")

C32_Witness ==
    /\ mainpc = "returned"
    /\ Len(urls) > MaxPar
    /\ \E i \in Tasks : outcome[i].err # "nil"
    /\ \E i \in Tasks : outcome[i].err = "nil"
    /\ sem = 0

\* ---------------------------------------------------------------------
\* C33: with the disable-cookies toggle set, fetchOne never loads, reads,
\* modifies or saves the cookie store on any path: no step of the fetch
\* changes the cookie file, the store or its lock, the fetch's trace holds no
\* load, ingest or save, and the first request carries no cookie.
C33_NoStoreSteps ==
    flagNoCookies =>
        \A i \in Tasks :
            /\ stores[i] = EmptyStore
            /\ ~mu[i]
            /\ fs[i].pc \notin {"load", "loading", "cookies", "incookies", "save", "saving"}
            /\ fs[i].loadSaw = "none"
            /\ fs[i].save = "none"
            /\ \A k \in DOMAIN fs[i].trace : fs[i].trace[k] = "request"
            /\ fs[i].reqs # <<>> => fs[i].reqs[1].cookies = {}

C33_FileUntouched ==
    flagNoCookies => (file' = file /\ stores' = stores /\ committed' = committed)

C33_NoCookiesTouchesNothing ==
    []C33_NoStoreSteps /\ [][C33_FileUntouched]_vars

C33_Witness ==
    /\ flagNoCookies
    /\ file.kind = "json"
    /\ \E i \in Tasks :
         /\ fs[i].pc = "return"
         /\ fs[i].err = "nil"
         /\ Len(fs[i].reqs) = 2
         /\ fs[i].challenge = "captcha"
         /\ urls[i].host = "a.test"

\* ---------------------------------------------------------------------
\* C34 as stated: after any sequence of document.cookie assignments the
\* solve result holds the name and value of the last assignment of the
\* sequence, and every read of document.cookie gives the empty string.
RECURSIVE C34_CallbackTexts(_)
C34_CallbackTexts(body) ==
    IF body = <<>> \/ Head(body).op = "throw" THEN <<>>
    ELSE IF Head(body).op = "assign"
      THEN <<Head(body).text>> \o C34_CallbackTexts(Tail(body))
    ELSE C34_CallbackTexts(Tail(body))

\* the texts a script assigns to document.cookie, in the order it does
RECURSIVE C34_Texts(_)
C34_Texts(script) ==
    IF script = <<>> THEN <<>>
    ELSE LET s == Head(script) IN
         (IF s.op = "assign" THEN <<s.text>>
          ELSE IF s.op = "timeout" /\ s.fn.callable THEN C34_CallbackTexts(s.fn.body)
          ELSE <<>>) \o C34_Texts(Tail(script))

C34_First(text, ch) ==
    IF \E k \in DOMAIN text : text[k] = ch
      THEN CHOOSE k \in DOMAIN text : text[k] = ch /\ \A m \in 1..(k - 1) : text[m] # ch
    ELSE Len(text) + 1

RECURSIVE C34_Trim(_)
C34_Trim(str) ==
    IF str # <<>> /\ Head(str) = " " THEN C34_Trim(Tail(str))
    ELSE IF str # <<>> /\ str[Len(str)] = " " THEN C34_Trim(SubSeq(str, 1, Len(str) - 1))
    ELSE str

C34_Pair(text) == C34_Trim(SubSeq(text, 1, C34_First(text, ";") - 1))

C34_HasPair(text) == \E k \in DOMAIN C34_Pair(text) : C34_Pair(text)[k] = "="

C34_NameValue(text) ==
    LET p == C34_Pair(text) IN
    IF C34_HasPair(text)
      THEN [ CookieName |-> SubSeq(p, 1, C34_First(p, "=") - 1),
             CookieValue |-> SubSeq(p, C34_First(p, "=") + 1, Len(p)) ]
    ELSE NoSolveResult

C34_Solved ==
    /\ call.fn = "Solve"
    /\ call.pc = "returned"
    /\ call.out.err = "nil"
    /\ "reads" \in DOMAIN call

C34_LastAssignmentWins ==
    (C34_Solved /\ C34_Texts(call.in) # <<>>) =>
        LET texts == C34_Texts(call.in) IN
        call.out.res = C34_NameValue(texts[Len(texts)])

\* C34: the solve result holds the name and value of the last assignment
\* whose text before the first ";" holds an "=", the name and the value being
\* what stands before and after that "=" once the text is trimmed of
\* surrounding white space; an assignment without an "=" there leaves the
\* result as it was, and the result is empty when no assignment had one.
\* Every read of document.cookie gives the empty string.
C34_LastPairWins ==
    C34_Solved =>
        LET texts == C34_Texts(call.in)
            pairs == { k \in DOMAIN texts : C34_HasPair(texts[k]) }
        IN  /\ IF pairs = {} THEN call.out.res = NoSolveResult
               ELSE \E k \in pairs :
                      /\ \A m \in pairs : m <= k
                      /\ call.out.res = C34_NameValue(texts[k])
            /\ \A k \in DOMAIN call.reads : call.reads[k] = <<>>

C34_Witness ==
    /\ C34_Solved
    /\ call.in = << ScriptStmt("assign", <<"a", "=", "1">>, 0, NoFn),
                    ScriptStmt("assign", <<"b", "=", "2">>, 0, NoFn) >>
    /\ call.out.res = [CookieName |-> <<"b">>, CookieValue |-> <<"2">>]

\* ---------------------------------------------------------------------
\* C36: setTimeout(fn, ms) runs the function fn once, before it returns and
\* before the statement after the call, whatever ms is, and returns 0: in a
\* script that ran to its end every setTimeout call returned 0, the calls
\* given a function ran it exactly once each, during the call itself, and a
\* cookie assigned by the last top-level statement replaces the one a
\* callback assigned before it.
C36_Solved ==
    /\ call.fn = "Solve"
    /\ call.pc = "returned"
    /\ call.out.err = "nil"
    /\ "rets" \in DOMAIN call

C36_Calls(script) == SelectSeq(script, LAMBDA s : s.op = "timeout")

RECURSIVE C36_CallableAt(_, _)
C36_CallableAt(calls, k) ==
    IF k > Len(calls) THEN <<>>
    ELSE (IF calls[k].fn.callable THEN <<k>> ELSE <<>>) \o C36_CallableAt(calls, k + 1)

C36_CallbackAssigns(s) ==
    /\ s.op = "timeout"
    /\ s.fn.callable
    /\ s.fn.body # <<>>
    /\ Head(s.fn.body).op = "assign"

C36_LaterStatementWins(script) ==
    /\ Len(script) >= 2
    /\ \E k \in 1..(Len(script) - 1) : C36_CallbackAssigns(script[k])
    /\ script[Len(script)].op = "assign"
    /\ \E k \in DOMAIN script[Len(script)].text : script[Len(script)].text[k] = "="
    /\ script[Len(script)].text[1] \notin {" ", ";", "="}

C35_InterrupterEnds ==
    (call.fn = "Solve" /\ call.pc = "start") ~> (call.pc = "returned" /\ call.wd = "exited")

C35_NoInterruptOnceFinished ==
    (call.fn = "Solve" /\ call.pc \in {"finished", "threw", "returned"} /\ ~call.interrupt)
        => ~call'.interrupt

C35_NeverInterruptsFinished ==
    C35_InterrupterEnds /\ [][C35_NoInterruptOnceFinished]_vars

\* C35: on every exit path of Solve (normal completion, runtime error,
\* interrupt) Solve returns and the interrupter goroutine ends in the end;
\* once Solve has returned the goroutine can leave through the done signal
\* without waiting for the timer; and a script that finished before the
\* timer fired is never reported as timed out, although the goroutine may
\* still call Interrupt on the idle interpreter when the timer fires before
\* it has seen the signal.
C35_SignalledOnReturn ==
    (call.fn = "Solve" /\ call.pc = "returned" /\ call.wd = "waiting")
        => ENABLED WatchdogDone

C35_FinishedStaysFinished ==
    (call.fn = "Solve" /\ call.pc \in {"finished", "threw"}) =>
        /\ call'.pc \in {call.pc, "returned"}
        /\ call'.pc = "returned" =>
             call'.out.err = (IF call.pc = "finished" THEN "nil" ELSE "JS execution error")

C35_InterrupterEndsHarmless ==
    /\ C35_InterrupterEnds
    /\ []C35_SignalledOnReturn
    /\ [][C35_FinishedStaysFinished]_vars

C35_Witness ==
    /\ call.fn = "Solve"
    /\ call.in = <<Stmt("throw", <<>>)>>
    /\ call.pc = "returned"
    /\ call.wd = "exited"
    /\ ~call.interrupt
    /\ call.elapsed < WatchdogSeconds
    /\ call.out.err = "JS execution error"

\* ---------------------------------------------------------------------
\* C37: the executor returns the decompressed body when the response's
\* Content-Encoding, compared without regard to case, is gzip or br, and the
\* body bytes as they came for every other value (absent, deflate, zstd and
\* the rest); a body that is not a stream of the named encoding makes it
\* return an error and no body.
C37_Lower(value) == [k \in DOMAIN value |-> ToLowerChar(value[k])]

C37_Encoding ==
    IF call.in.header = <<>> THEN <<>> ELSE C37_Lower(call.in.header[1].value)

C37_Answered ==
    /\ call.fn = "doFetchWithBody"
    /\ call.pc = "returned"
    /\ call.out.err # "transport error"

C37_Expect(plains, body) ==
    IF plains # {}
      THEN call.out.err = "nil" /\ call.out.hasBody /\ call.out.body \in plains
    ELSE call.out.err # "nil" /\ ~call.out.hasBody /\ call.out.body = <<>>

RECURSIVE C37_GzipStreams(_)
C37_GzipStreams(n) ==
    IF n = 0 THEN {}
    ELSE { <<GzipOf(p), p>> : p \in PlainsUpTo(MaxPlain) }
         \cup { <<GzipOf(p) \o s[1], p \o s[2]>> :
                  p \in PlainsUpTo(MaxPlain), s \in C37_GzipStreams(n - 1) }

C37_DecodesGzipAndBr ==
    C37_Answered =>
        LET wire == call.in.wire IN
        IF C37_Encoding = <<"g", "z", "i", "p">>
          THEN C37_Expect({ s[2] : s \in { x \in C37_GzipStreams(2) : x[1] = wire } }, wire)
        ELSE IF C37_Encoding = <<"b", "r">>
          THEN C37_Expect({ p \in PlainsUpTo(MaxPlain) : BrotliOf(p) = wire }, wire)
        ELSE call.out.err = "nil" /\ call.out.hasBody /\ call.out.body = wire

C37_Witness ==
    /\ C37_Answered
    /\ call.in.header = << [name |-> <<"c", "o", "n", "t", "e", "n", "t", "-", "e", "n", "c", "o", "d", "i", "n", "g">>,
                            value |-> <<"G", "Z", "I", "P">>] >>
    /\ call.in.wire = GzipOf(<<"x", "y">>)
    /\ call.out.body = <<"x", "y">>
    /\ call.out.err = "nil"

\* ---------------------------------------------------------------------
\* C38 as stated: a fetch with cookies enabled that solved a JS or captcha
\* challenge and ends without error has left the solved cookie in the saved
\* store under the origin of the target URL, and the next fetch of that URL
\* sends it with its first request.
C38_SolvedCookies(i) == { SolvedCookie(i), TokenCookie(i) }

C38_Solved(i) ==
    /\ fs[i].pc = "return"
    /\ fs[i].err = "nil"
    /\ \E k \in DOMAIN fs[i].log : fs[i].log[k][1] = "solved"

C38_InFile(i) ==
    /\ file.kind = "json"
    /\ \E k \in DOMAIN file.data, c \in C38_SolvedCookies(i) :
         /\ file.data[k].Name = c.Name
         /\ file.data[k].Value = c.Value
         /\ file.data[k].URL = UrlKey(TargetURL(i))
         /\ NameValue(c) \in fs[i].cookies

C38_SavedWhenSaveWorked ==
    \A i \in Tasks : (C38_Solved(i) /\ fs[i].save = "ok") => C38_InFile(i)

C38_NextFetchSends ==
    \A i, j \in Tasks :
        (/\ i # j
         /\ tpc[i] = "done"
         /\ tpc[j] = "run"
         /\ fs[j].reqs # <<>>) =>
            \A c \in C38_SolvedCookies(i) :
                (/\ <<c.Name, UrlKey(TargetURL(i))>> \in DOMAIN committed
                 /\ committed[<<c.Name, UrlKey(TargetURL(i))>>] = c.Value) =>
                    NameValue(c) \in fs[j].reqs[1].cookies

C39_OnePerPair(tracked) ==
    \A k, m \in DOMAIN tracked :
        (tracked[k].Name = tracked[m].Name /\ tracked[k].URL = tracked[m].URL) => k = m

C39_AlignedAfterLoad ==
    /\ C39_OnePerPair(stores[1].tracked)
    /\ file.kind = "json" => C39_OnePerPair(file.data)

\* ---------------------------------------------------------------------
\* C40: when a fresh store loads the file a store saved, the fresh store's
\* tracking record is the saving store's record without the tuples whose
\* non-zero expiry lies before the time of the load, in the same order and
\* with every field as recorded, and a save of the fresh store writes those
\* same tuples.
C40_Expired(sc, t) == sc.Expires # 0 /\ sc.Expires < t

C40_NonExpired(tracked, t) == SelectSeq(tracked, LAMBDA sc : ~C40_Expired(sc, t))

C40_FreshLoadOfSave ==
    /\ lastOp = "freshload"
    /\ \E t \in 1..now : file = JsonFile(Active(stores[1].tracked, t))

====
